---- MODULE Spec2Model ----
(***************************************************************************)
(* Legend of Adventure, server side.                                       *)
(*                                                                         *)
(*  - the player session / protocol gateway (internals/comm.py,            *)
(*    CommHandler) together with the process-wide registries it updates,   *)
(*  - the inventory mixin (internals/inventory.py, InventoryManager),      *)
(*  - the cooperative timer queue (internals/entities/entities.py,         *)
(*    ScheduleHelper).                                                     *)
(*                                                                         *)
(* Python values are modelled as follows.  None is the string "None" for   *)
(* string-valued attributes (this is also what str() and "%s" make of it)  *)
(* and NoCoord for a numeric one.  A Location is the record of its         *)
(* address world:x:y[:sub]*.  A frame is its 3-character tag plus a        *)
(* payload record that keeps the distinctions the handlers test.           *)
(***************************************************************************)
EXTENDS Integers, Sequences, FiniteSets, TLC

-----------------------------------------------------------------------------
(* internals/constants.py *)

level_width == 75
level_height == 75
tilesize == 50

-----------------------------------------------------------------------------
(* Python values *)

NONE == "None"

NoCoord == -1000000

Truthy(v) == v # NONE /\ v # ""

\* int(float(text)) for a payload number given in halves: truncation toward 0.
IntOfFloat(h) == IF h >= 0 THEN h \div 2 ELSE -((-h) \div 2)

RECURSIVE RemoveFirst(_, _)
RemoveFirst(seq, e) ==
    IF seq = <<>> THEN <<>>
    ELSE IF Head(seq) = e THEN Tail(seq)
    ELSE <<Head(seq)>> \o RemoveFirst(Tail(seq), e)

InSeq(seq, e) == \E i \in 1..Len(seq) : seq[i] = e

\* dict/key-value helpers
DropKey(f, k) == [j \in (DOMAIN f) \ {k} |-> f[j]]
PutKey(f, k, v) == [j \in (DOMAIN f) \cup {k} |-> IF j = k THEN v ELSE f[j]]

-----------------------------------------------------------------------------
(* Locations (internals/locations.py is not part of the sources) *)

Addr(w, x, y, subs) == [world |-> w, x |-> x, y |-> y, subs |-> subs]

NoLocation == Addr(NONE, 0, 0, <<>>)

Origin == Addr("o", 0, 0, <<>>)

\* Location.get_slide_code(x, y): the neighbouring top-level tile on the side
\* of the edge that was crossed.
get_slide_code(loc, x, y) ==
    IF x <= 0 THEN Addr(loc.world, loc.x - 1, loc.y, <<>>)
    ELSE IF y <= 0 THEN Addr(loc.world, loc.x, loc.y - 1, <<>>)
    ELSE IF x >= level_width * tilesize
         THEN Addr(loc.world, loc.x + 1, loc.y, <<>>)
    ELSE Addr(loc.world, loc.x, loc.y + 1, <<>>)

\* a parent address that keeps every segment
ParentAddr_whole(loc) == Addr(loc.world, loc.x, loc.y, loc.subs)

\* the parent address built by _load_level for ".."
ParentAddr(loc) ==
    Addr(loc.world, loc.x, loc.y,
         IF loc.subs = <<>> THEN <<>> ELSE SubSeq(loc.subs, 1, Len(loc.subs) - 1))

SubAddr(loc, tok) == Addr(loc.world, loc.x, loc.y, Append(loc.subs, tok))

-----------------------------------------------------------------------------
(* internals/inventory.py: the dict, as the function slot -> code over its *)
(* occupied slots                                                          *)

EmptyInventory == [i \in {} |-> ""]

Slots(inv) == DOMAIN inv

inventory_full(inv) == Cardinality(Slots(inv)) = 5

registered_inv(inv) == PutKey(PutKey(inv, 0, "wsw.sharp.12"), 1, "f5")

\* item.startswith("w")
IsWeapon(code) == code \in {"wsw.sharp.12", "wbo.old.3"}

\* a choice of the highest free slot
FreeSlot_highest(inv) == CHOOSE i \in (0..4) \ Slots(inv) :
                             \A j \in (0..4) \ Slots(inv) : j <= i

\* the slot give_item's loop over range(5) stops at
FreeSlot(inv) == CHOOSE i \in (0..4) \ Slots(inv) :
                     \A j \in (0..4) \ Slots(inv) : i <= j

\* the loop of drop_item reads the slots 0..len-1
Renumberable(inv) == \A i \in 0..(Cardinality(Slots(inv)) - 1) : i \in Slots(inv)

\* a removal that leaves the other items in their slots
Renumber_in_place(inv, slot) == DropKey(inv, slot)

\* the new_inv of drop_item: the items other than slot's, in slot order, at
\* 0, 1, 2, ...
Renumber(inv, slot) ==
    LET n == Cardinality(Slots(inv))
        kept(k) == IF k < slot \/ slot >= n THEN k ELSE k + 1
    IN [k \in 0..(n - 1 - (IF slot < n THEN 1 ELSE 0)) |-> inv[kept(k)]]

\* a rotation that does not wrap around
Rotate_no_wrap(inv, direction) ==
    LET count == Cardinality(Slots(inv))
    IN [i \in 0..(count - 1) |->
            IF i + direction \in 0..(count - 1) THEN inv[i + direction] ELSE inv[i]]

\* the new_inv of cycle_items
Rotate(inv, direction) ==
    LET count == Cardinality(Slots(inv))
    IN [i \in 0..(count - 1) |-> inv[(i + direction) % count]]

-----------------------------------------------------------------------------
(* Frames and bus messages *)

Frame(tag, arg) == [tag |-> tag, arg |-> arg]

Err(text) == Frame("err", text)

-----------------------------------------------------------------------------
(* State *)

Sessions == {"s1", "s2"}

VARIABLES
    conn,              \* session -> "new" | "open" | "aborted" | "closed"
    guid,              \* CommHandler.guid
    location,          \* CommHandler.location
    position,          \* CommHandler.position
    parent_positions,  \* CommHandler.parent_positions
    velocity,          \* CommHandler.velocity
    old_velocity,      \* CommHandler.old_velocity
    chat_name,         \* CommHandler.chat_name
    inventory,         \* InventoryManager.inventory
    armed,             \* the private Scheduler has a firing pending
    connections,       \* comm.connections
    locations,         \* comm.locations: address -> list of sessions
    subscribed,        \* addresses whose channels brukva is subscribed to
    cacheMembers,      \* redis sets l:c:<loc>, as pairs <<loc, guid>>
    cachePos,          \* redis keys l:p:<guid>
    req,               \* the frame handled by the last step
    ran,               \* the handler on_message dispatched to in the last step
    out,               \* frames written to the acting session by the last step
    bus,               \* messages published by the last step
    ret,               \* what the last call returned
    cycleBase,         \* the inventory before the current run of forward cycles
    cycleRun,          \* the length of that run
    schedule_queue,    \* ScheduleHelper.schedule_queue of one Animat
    clock,             \* time.time(), in quarters of a second
    nextId,            \* the number of schedule() calls so far
    alive,             \* the calls that were not descheduled since
    fired,             \* call -> how often its callback was fired
    animat,            \* the attributes of that Animat that move() writes
    calls,             \* the last call made on it, if it was a move
    entities,          \* EntityServlet.entities
    players,           \* EntityServlet.players: guid -> SimulatedPlayer
    ttl,               \* EntityServlet.ttl: a timer of `timers`, 0 for None
    timers,            \* the threading.Timer objects made so far
    wstate,            \* the worker process: "new" | "running" | "terminated"
    wpc,               \* where the main loop of run stands
    inQ,               \* ThreadedRedisReader.output_queue (inbound events)
    outQ,              \* ThreadedRedisReader.input_queue (outbound messages)
    arrived,           \* every event the reader thread has enqueued
    handled,           \* every event the main loop has taken from inQ
    produced,          \* every message queued through notify_location
    published,         \* every message flush has published
    loop_now,          \* `now` of the running loop iteration of run
    last_loop_iteration,
    ranged,            \* the on_player_range calls made by the last step
    did,               \* the thread that took the last step, and what it did
    sentient,          \* a SentientAnimat: position, fleeing, chasing, preference
    where,             \* guid -> position of the players of its location
    best,              \* its last _get_best_direction call, with the result
    roads,             \* a tile grid and what smooth_roads made of it
    town,              \* two runs of build_town on equal arguments
    visits,            \* guid -> how often that player entered the location
    descent            \* session -> what its last handler run kept of a descent

sessionVars == <<conn, guid, location, position, parent_positions, velocity,
                 old_velocity, chat_name, inventory, armed>>
processVars == <<connections, locations, subscribed, cacheMembers, cachePos>>
traceVars == <<req, ran, out, bus, ret, descent>>
cycleVars == <<cycleBase, cycleRun>>

schedVars == <<schedule_queue, clock, nextId, alive, fired>>

animatVars == <<animat, calls>>

\* the state on the side of the location workers, beyond the timer queue
workerVars == <<entities, players, ttl, timers, wstate, wpc, inQ, outQ,
                arrived, handled, produced, published, loop_now,
                last_loop_iteration, ranged, did>>

sentVars == <<sentient, where, best>>

\* the level builder
levelVars == <<roads, town>>

simVars == <<animatVars, workerVars, sentVars, levelVars, visits>>

vars == <<sessionVars, processVars, traceVars, cycleVars, schedVars, simVars>>

-----------------------------------------------------------------------------
(* A handler run is threaded through a context: the session's attributes,  *)
(* the process-wide registries, what was written and published so far and  *)
(* whether an exception has propagated out of the handler.                 *)

Ses(s) == [guid |-> guid[s], location |-> location[s],
           position |-> position[s],
           parent_positions |-> parent_positions[s],
           velocity |-> velocity[s], old_velocity |-> old_velocity[s],
           chat_name |-> chat_name[s], inventory |-> inventory[s],
           armed |-> armed[s]]

Glob == [locations |-> locations, subscribed |-> subscribed,
         cacheMembers |-> cacheMembers, cachePos |-> cachePos]

\* `loads` lists the calls of _load_level the handler made, each with the
\* location, position and stack depth of the session at the call
Ctx(s) == [ses |-> Ses(s), gl |-> Glob, out |-> <<>>, bus |-> <<>>,
           ran |-> "none", ret |-> NONE, raised |-> FALSE, loads |-> <<>>]

Raise(c) == [c EXCEPT !.raised = TRUE]

\* tornado's write_message
write_message(c, m) == IF c.raised THEN c ELSE [c EXCEPT !.out = Append(@, m)]

Publish(c, chan, loc, m) ==
    IF c.raised THEN c
    ELSE [c EXCEPT !.bus = Append(@, [chan |-> chan, loc |-> loc, msg |-> m])]

_notify_location(c, loc, m) == Publish(c, "location::p", loc, m)

_notify_global(c, data_type, m) == Publish(c, "global::" \o data_type, NoLocation, m)

-----------------------------------------------------------------------------
(* comm.py: process-wide bookkeeping *)

del_client(c, s) ==
    IF c.raised THEN c
    ELSE IF c.ses.location = NoLocation \/ ~Truthy(c.ses.guid) THEN c
    ELSE
      LET loc == c.ses.location
          g == c.ses.guid
          c1 == [c EXCEPT !.gl.cacheMembers = @ \ {<<loc, g>>},
                          !.gl.cachePos = DropKey(@, g)]
          c2 == _notify_location(c1, loc, Frame("del", g))
          locs == c2.gl.locations
      IN IF loc \notin DOMAIN locs \/ ~InSeq(locs[loc], s)
         THEN Raise(c2)      \* KeyError / ValueError of list.remove
         ELSE LET rest == RemoveFirst(locs[loc], s)
              IN IF rest = <<>>
                 THEN [c2 EXCEPT !.gl.locations = DropKey(@, loc),
                                 !.gl.subscribed = @ \ {loc}]
                 ELSE [c2 EXCEPT !.gl.locations = PutKey(@, loc, rest)]

add_client(c, s) ==
    IF c.raised THEN c
    ELSE
      LET loc == c.ses.location
          g == c.ses.guid
          pos == c.ses.position
          locs == c.gl.locations
          c1 == [c EXCEPT !.gl.locations =
                              PutKey(@, loc, IF loc \in DOMAIN locs
                                             THEN Append(locs[loc], s)
                                             ELSE <<s>>),
                          !.gl.subscribed = @ \cup {loc}]
      IN IF pos[1] = NoCoord \/ pos[2] = NoCoord
         THEN Raise(c1)      \* "%d" % None
         ELSE
           LET c2 == _notify_global(c1, "enter",
                        [loc |-> loc, guid |-> g, x |-> pos[1], y |-> pos[2]])
               members == {m[2] : m \in {p \in c2.gl.cacheMembers : p[1] = loc}}
               replay == {IF r \in DOMAIN c2.gl.cachePos
                          THEN c2.gl.cachePos[r]
                          ELSE [guid |-> NONE, x |-> 0, y |-> 0] : r \in members}
               \* one "add" frame per cached member; SMEMBERS has no order, so
               \* the frames are recorded together
               c3 == IF members = {} THEN c2
                     ELSE write_message(c2, [tag |-> "add", members |-> replay])
           IN [c3 EXCEPT !.gl.cacheMembers = @ \cup {<<loc, g>>},
                         !.gl.cachePos =
                             PutKey(@, g, [guid |-> g, x |-> pos[1], y |-> pos[2]])]

-----------------------------------------------------------------------------
(* comm.py: the handlers *)

\* Location(address) for an address given by the client: "world:x:y[:sub]*"
\* resolves, anything else does not.
LevPayload(kind, tok, addr) == [kind |-> kind, tok |-> tok, addr |-> addr]

_load_level(c, s, data, avx, avy) ==
    IF c.raised THEN c
    ELSE
      LET sl == c.ses.location
          c1 == IF sl # NoLocation THEN del_client(c, s) ELSE c
          c2 ==
            IF c1.raised THEN c1
            ELSE IF data.kind = "sub"            \* data.startswith(":")
            THEN LET pushed == [c1 EXCEPT !.ses.parent_positions =
                                              Append(@, c1.ses.position)]
                 IN IF sl = NoLocation
                    THEN Raise(pushed)           \* Location("None:tok")
                    ELSE [pushed EXCEPT !.ses.location = SubAddr(sl, data.tok)]
            ELSE IF data.kind = "up"             \* data == ".."
            THEN IF sl = NoLocation
                 THEN Raise(c1)                  \* None has no attributes
                 ELSE LET pop(ses) ==             \* parent_positions.pop()
                            IF ses.parent_positions = <<>>
                            THEN [ses EXCEPT !.location = ParentAddr(sl)]
                            ELSE [ses EXCEPT
                                    !.location = ParentAddr(sl),
                                    !.position = ses.parent_positions[
                                                   Len(ses.parent_positions)],
                                    !.parent_positions =
                                        SubSeq(@, 1, Len(@) - 1)]
                          popped == [c1 EXCEPT !.ses = pop(@)]
                      IN IF \E stack \in {c1.ses.parent_positions} :
                              \/ stack = <<>>     \* pop from empty list
                              \/ NoCoord \in {stack[Len(stack)][1],
                                               stack[Len(stack)][2]}
                                                  \* None / constants.tilesize
                         THEN Raise(popped)
                         ELSE popped
            ELSE IF data.kind = "addr"
            THEN [c1 EXCEPT !.ses.location = data.addr,
                            !.ses.position = <<avx, avy>>]
            ELSE Raise(c1)                       \* Location(garbage)
          c3 == write_message(c2, [tag |-> "lev", loc |-> c2.ses.location])
      IN [add_client(c3, s) EXCEPT !.loads =
            Append(@, [data |-> data, avx |-> avx, avy |-> avy,
                       at |-> c.ses.location, pos |-> c.ses.position,
                       depth |-> Len(c.ses.parent_positions)])]

\* a slide that keeps the tile of every approach value
SlideAxis_no_wrap(av, size) ==
    IF av = -1 THEN size \div 2 ELSE av \div tilesize

\* the spawn tile of one axis computed by _level_slide
SlideAxis(av, size) ==
    IF av = -1 THEN size \div 2
    ELSE LET t == av \div tilesize
         IN IF t < 2 THEN size - 1
            ELSE IF t > size - 2 THEN 0
            ELSE t

\* _level_slide for a well-formed payload "x:y:avx:avy"
_level_slide(c, s, x, y, avx, avy) ==
    LET tx == SlideAxis(avx, level_width)
        ty == SlideAxis(avy, level_height)
    IN IF c.ses.location = NoLocation
       THEN _load_level(c, s, LevPayload("addr", "", Origin), tx, ty)
       ELSE _load_level(c, s,
                LevPayload("addr", "", get_slide_code(c.ses.location, x, y)),
                tx, ty)

\* update_inventory's slot=None
NoSlot == -1

\* get_line of update_inventory
get_line(inv, slot) == [slot |-> slot,
                        code |-> IF slot \in Slots(inv) THEN inv[slot] ELSE ""]

\* `if slot:` sends one line for the slots 1..4, all five lines otherwise
update_inventory(c, slot) ==
    IF slot # NoSlot /\ slot # 0
    THEN write_message(c, [tag |-> "inv", lines |-> <<get_line(c.ses.inventory, slot)>>])
    ELSE write_message(c, [tag |-> "inv",
                           lines |-> [i \in 1..5 |-> get_line(c.ses.inventory, i - 1)]])

\* InventoryManager.registered
registered(c) ==
    update_inventory([c EXCEPT !.ses.inventory = registered_inv(@)], NoSlot)

give_item(c, item_code) ==
    IF inventory_full(c.ses.inventory)
    THEN [c EXCEPT !.ret = "False"]
    ELSE LET i == FreeSlot(c.ses.inventory)
             c1 == [c EXCEPT !.ses.inventory = PutKey(@, i, item_code)]
         IN [update_inventory(c1, i) EXCEPT !.ret = "True"]

\* The host of the mixin is CommHandler, which has neither the attribute
\* `direction` nor `id`: the tail of drop_item, after the inventory is
\* updated, raises AttributeError before anything is published.
drop_item(c, slot, update) ==
    IF slot \notin Slots(c.ses.inventory) THEN c
    ELSE IF ~update THEN Raise(c)
    ELSE IF ~Renumberable(c.ses.inventory) THEN Raise(c)     \* KeyError
    ELSE LET c1 == [c EXCEPT !.ses.inventory = Renumber(@, slot)]
         IN Raise(update_inventory(c1, NoSlot))

cycle_items(c, direction) ==
    IF ~Renumberable(c.ses.inventory) THEN Raise(c)          \* KeyError
    ELSE LET c1 == [c EXCEPT !.ses.inventory =
                        Rotate(@, IF direction = "b" THEN -1 ELSE 1)]
         IN update_inventory(c1, NoSlot)

empty_inventory(c) ==
    update_inventory([c EXCEPT !.ses.inventory = EmptyInventory], NoSlot)

\* a registration that adopts the guid before it tests it
_register_adopts_first(c, s, data) ==
    LET c1 == [c EXCEPT !.ses.guid = data]
    IN IF data = "local"
       THEN write_message(c1, Err("Bad GUID"))
       ELSE _level_slide(registered(c1), s, 0, 0, -1, -1)

_register(c, s, data) ==
    IF data = "local"
    THEN write_message(c, Err("Bad GUID"))
    ELSE LET c1 == [c EXCEPT !.ses.guid = data]
         IN _level_slide(registered(c1), s, 0, 0, -1, -1)

\* strip_tags on a text given as its pieces: complete tags "<..>" are removed,
\* a remaining angle bracket is escaped.
RECURSIVE strip_tags(_)
strip_tags(text) ==
    IF text = <<>> THEN <<>>
    ELSE LET h == Head(text)
             rest == strip_tags(Tail(text))
         IN IF h \in {"<b>", "</b>"} THEN rest
            ELSE IF h = "<" THEN <<"&lt;">> \o rest
            ELSE IF h = ">" THEN <<"&gt;">> \o rest
            ELSE <<h>> \o rest

\* Scheduler.event_happened (internals/scheduler.py is not part of the
\* sources): a repeating firing is armed.
event_happened(c) == [c EXCEPT !.ses.armed = TRUE]

\* a direction test that wants both components in range
BadDirection_both(x_dir, y_dir) ==
    ~((-1 <= x_dir /\ x_dir <= 1) /\ (-1 <= y_dir /\ y_dir <= 1))

BadDirection(x_dir, y_dir) ==
    ~((-1 <= x_dir /\ x_dir <= 1) \/ (-1 <= y_dir /\ y_dir <= 1))

\* a bounds test that excludes the far edge
BadPosition_exclusive(x, y) ==
    \/ x < 0
    \/ x >= level_width * tilesize
    \/ y < 0
    \/ y >= level_height * tilesize

BadPosition(x, y) ==
    \/ x < 0
    \/ x > level_width * tilesize
    \/ y < 0
    \/ y > level_height * tilesize

\* the tail of _on_position_update, after the payload passed the tests
ApplyPosition(c, x, y, x_dir, y_dir) ==
    LET c1 == [c EXCEPT !.ses.position = <<x, y>>,
                        !.ses.velocity = <<x_dir, y_dir>>]
        c2 == event_happened(c1)
    IN [c2 EXCEPT !.gl.cachePos =
           PutKey(@, c2.ses.guid, [guid |-> c2.ses.guid, x |-> x, y |-> y])]

\* a handler that stores the position before it tests it
_on_position_update_store_first(c, data) ==
    IF data.kind = "bad"
    THEN write_message(c, Err("Invalid Position"))
    ELSE IF data.kind = "inf"
    THEN Raise(c)
    ELSE
      LET x == IntOfFloat(data.v[1])
          y == IntOfFloat(data.v[2])
          x_dir == IntOfFloat(data.v[3])
          y_dir == IntOfFloat(data.v[4])
          stored == [c EXCEPT !.ses.position = <<x, y>>]
      IN IF BadDirection(x_dir, y_dir)
         THEN write_message(stored, Err("Bad Direction"))
         ELSE IF BadPosition(x, y)
         THEN write_message(stored, Err("Bad Position"))
         ELSE ApplyPosition(c, x, y, x_dir, y_dir)

_on_position_update(c, data) ==
    IF data.kind = "bad"                  \* ValueError of float() or unpacking
    THEN write_message(c, Err("Invalid Position"))
    ELSE IF data.kind = "inf"             \* int(float("inf")): OverflowError
    THEN Raise(c)
    ELSE
      LET x == IntOfFloat(data.v[1])
          y == IntOfFloat(data.v[2])
          x_dir == IntOfFloat(data.v[3])
          y_dir == IntOfFloat(data.v[4])
      IN IF BadDirection(x_dir, y_dir)
         THEN write_message(c, Err("Bad Direction"))
         ELSE IF BadPosition(x, y)
         THEN write_message(c, Err("Bad Position"))
         ELSE ApplyPosition(c, x, y, x_dir, y_dir)

_handle_command(c, data) ==
    IF c.ses.location = NoLocation THEN c
    ELSE IF data.kind = "identify"        \* message.startswith("identify ")
    THEN LET name == strip_tags(data.body)
             c1 == IF name # <<>> THEN [c EXCEPT !.ses.chat_name = name] ELSE c
         IN write_message(c1, Frame("cha", "god\n/Got it, thanks"))
    ELSE c

_on_chat(c, data) ==
    IF data.kind # "text"                 \* data.startswith("/")
    THEN _handle_command(c, data)
    ELSE _notify_location(c, c.ses.location,
             [tag |-> "cha", guid |-> c.ses.guid,
              name |-> c.ses.chat_name, body |-> strip_tags(data.body)])

use_item(c, data) ==
    IF data.kind = "bad" THEN Raise(c)    \* int(slot): ValueError
    ELSE IF data.n \notin Slots(c.ses.inventory) THEN c
    ELSE LET item == c.ses.inventory[data.n]
         IN IF IsWeapon(item)
            THEN Raise(c)                 \* self.id: CommHandler has no such attribute
            ELSE write_message(c, Frame("cha", "item daemon\nUsed " \o item))

REQUIRE_GUID == {"pos", "dir", "ups", "cha"}
REQUIRE_SCENE == {"dir", "ups", "cha"}
callbacks == {"reg", "lev", "cha", "loc", "use"}

Dispatch(c, s, m_type, data) ==
    IF m_type = "reg" THEN _register([c EXCEPT !.ran = "_register"], s, data)
    ELSE IF m_type = "lev"
    THEN _load_level([c EXCEPT !.ran = "_load_level"], s, data, NoCoord, NoCoord)
    ELSE IF m_type = "cha" THEN _on_chat([c EXCEPT !.ran = "_on_chat"], data)
    ELSE IF m_type = "loc"
    THEN _on_position_update([c EXCEPT !.ran = "_on_position_update"], data)
    ELSE use_item([c EXCEPT !.ran = "use_item"], data)

on_message(c, s, m_type, data) ==
    IF m_type \in REQUIRE_GUID /\ ~Truthy(c.ses.guid)
    THEN write_message(c, Err("Not Registered"))
    ELSE IF m_type \in REQUIRE_SCENE /\ c.ses.location = NoLocation
    THEN write_message(c, Err("No registered scene"))
    ELSE IF m_type \in callbacks
    THEN Dispatch(c, s, m_type, data)
    ELSE write_message(c, Err("Unknown Command"))

-----------------------------------------------------------------------------
(* Frames a client may send *)

MaxDepth == 1
MaxSlide == 1
MaxMembers == 2

\* exploration stops short of member lists longer than MaxMembers
MembersBounded == \A l \in DOMAIN locations : Len(locations[l]) < MaxMembers

LocPayload(x, y, xd, yd) == [kind |-> "nums", v |-> <<x, y, xd, yd>>]

RegPayloads == {"local", "", "a"}

LevPayloads == {LevPayload("up", "", NoLocation),
                LevPayload("sub", "b1", NoLocation),
                LevPayload("addr", "", Origin),
                LevPayload("bad", "", NoLocation)}

ChaPayloads == {[kind |-> "text", body |-> <<"<b>", "hi", "<">>],
                [kind |-> "identify", body |-> <<"bob">>],
                [kind |-> "identify", body |-> <<"<b>">>]}

\* numbers of a loc payload are given in halves (7500 is "3750", 7501 "3750.5")
LocPayloads == {[kind |-> "bad", v |-> <<>>], [kind |-> "inf", v |-> <<>>],
                LocPayload(100, 200, 2, 0),
                LocPayload(7502, 0, 0, 0), LocPayload(0, 0, 4, 10)}

UsePayloads == {[kind |-> "int", n |-> 0], [kind |-> "int", n |-> 1],
                [kind |-> "bad", n |-> 0]}

OtherTags == {"pos", "dir", "ups", "xyz"}

-----------------------------------------------------------------------------
(* Actions *)

\* Animat.__init__; `said` holds what the last step had the entity send to
\* its location
NewAnimat == [velocity |-> <<0, 0>>, old_velocity |-> <<0, 0>>, layer |-> 0,
              wandering |-> NONE, said |-> <<>>]

\* `calls` after a call that is not a move
OtherCall == [op |-> "other", v |-> <<0, 0>>]

\* sentient.py: FLEE, CHASE; NoBehavior is the None of _flee_or_chase
FLEE == 1
CHASE == 2
NoBehavior == 0

\* SentientAnimat.__init__, for an entity placed at (500, 500)
NewSentient == [position |-> <<500, 500>>, fleeing |-> {}, chasing |-> NONE,
                prefer_behavior |-> FLEE, id |-> "%1",
                remembered_distances |-> [g \in {} |-> 0],
                does_attack |-> FALSE, last_attack |-> 0]

\* no call of _get_best_direction was made since the entity was last arranged
NoBest == [called |-> FALSE, weighted |-> FALSE, usable |-> <<>>,
           behavior |-> NoBehavior, flee_position |-> NONE, angle |-> NONE,
           dir |-> NONE, raised |-> FALSE]

\* the session did not descend, or loaded another level since
NoDescent == [open |-> FALSE, at |-> NoLocation, pos |-> <<0, 0>>, depth |-> 0,
              last |-> "none"]

\* no grid was handed to smooth_roads yet
NoRoads == [applied |-> -1, grid |-> <<>>, given |-> <<>>, before |-> <<>>,
            raised |-> FALSE]

\* build_town was not called yet
NoTown == [phase |-> "none"]

Init ==
    /\ conn = [s \in Sessions |-> "new"]
    /\ guid = [s \in Sessions |-> NONE]
    /\ location = [s \in Sessions |-> NoLocation]
    /\ position = [s \in Sessions |-> <<0, 0>>]
    /\ parent_positions = [s \in Sessions |-> <<>>]
    /\ velocity = [s \in Sessions |-> <<0, 0>>]
    /\ old_velocity = [s \in Sessions |-> <<0, 0>>]
    /\ chat_name = [s \in Sessions |-> <<>>]
    /\ inventory = [s \in Sessions |-> EmptyInventory]
    /\ armed = [s \in Sessions |-> FALSE]
    /\ connections = <<>>
    /\ locations = [l \in {} |-> <<>>]
    /\ subscribed = {}
    /\ cacheMembers = {}
    /\ cachePos = [g \in {} |-> <<>>]
    /\ req = [s |-> "", tag |-> "", data |-> ""]
    /\ ran = "none"
    /\ out = <<>>
    /\ bus = <<>>
    /\ ret = NONE
    /\ cycleBase = EmptyInventory
    /\ cycleRun = 0
    /\ schedule_queue = <<>>
    /\ clock = 0
    /\ nextId = 0
    /\ alive = {}
    /\ fired = [i \in {} |-> 0]
    /\ animat = NewAnimat
    /\ calls = OtherCall
    /\ entities = <<>>
    /\ players = [g \in {} |-> <<>>]
    /\ ttl = 0
    /\ timers = <<>>
    /\ wstate = "new"
    /\ wpc = "drain"
    /\ inQ = <<>>
    /\ outQ = <<>>
    /\ arrived = <<>>
    /\ handled = <<>>
    /\ produced = <<>>
    /\ published = <<>>
    /\ loop_now = 0
    /\ last_loop_iteration = 0
    /\ ranged = <<>>
    /\ did = [thread |-> "none", op |-> "none"]
    /\ sentient = NewSentient
    /\ where = [g \in {"p1", "p2"} |-> <<0, 0>>]
    /\ best = NoBest
    /\ roads = NoRoads
    /\ town = NoTown
    /\ visits = [g \in {"p1", "p2"} |-> 0]
    /\ descent = [s \in Sessions |-> NoDescent]

\* what is kept of a handler run for the session's `descent`: a run whose
\* one level load was a descent notes where the session stood, a run whose
\* one level load was the way back closes it, a run with another level
\* load, or one that raised, forgets it
AfterLoads(d, loads, raised) ==
    IF loads = <<>> THEN [d EXCEPT !.last = "none"]
    ELSE LET load == loads[Len(loads)]
         IN IF Len(loads) = 1 /\ ~raised /\ load.data.kind = "sub"
               /\ load.at # NoLocation
            THEN [open |-> TRUE, at |-> load.at, pos |-> load.pos,
                  depth |-> load.depth, last |-> "sub"]
            ELSE IF Len(loads) = 1 /\ ~raised /\ load.data.kind = "up"
                    /\ d.open
            THEN [d EXCEPT !.open = FALSE, !.last = "up"]
            ELSE [NoDescent EXCEPT !.last = load.data.kind]

\* the outcome of a handler run becomes the new state; an exception that
\* leaves the handler makes tornado abort the connection
Commit(s, c) ==
    /\ descent' = [descent EXCEPT ![s] = AfterLoads(@, c.loads, c.raised)]
    /\ guid' = [guid EXCEPT ![s] = c.ses.guid]
    /\ location' = [location EXCEPT ![s] = c.ses.location]
    /\ position' = [position EXCEPT ![s] = c.ses.position]
    /\ parent_positions' = [parent_positions EXCEPT ![s] = c.ses.parent_positions]
    /\ velocity' = [velocity EXCEPT ![s] = c.ses.velocity]
    /\ old_velocity' = [old_velocity EXCEPT ![s] = c.ses.old_velocity]
    /\ chat_name' = [chat_name EXCEPT ![s] = c.ses.chat_name]
    /\ inventory' = [inventory EXCEPT ![s] = c.ses.inventory]
    /\ armed' = [armed EXCEPT ![s] = c.ses.armed]
    /\ locations' = c.gl.locations
    /\ subscribed' = c.gl.subscribed
    /\ cacheMembers' = c.gl.cacheMembers
    /\ cachePos' = c.gl.cachePos
    /\ ran' = c.ran
    /\ out' = c.out
    /\ bus' = c.bus
    /\ ret' = IF c.raised THEN "raised" ELSE c.ret

\* CommHandler.open
Open(s) ==
    /\ conn[s] = "new"
    /\ conn' = [conn EXCEPT ![s] = "open"]
    /\ connections' = Append(connections, s)
    /\ req' = [s |-> s, tag |-> "open", data |-> ""]
    /\ ran' = "open"
    /\ out' = <<Frame("elo", "")>>
    /\ bus' = <<>>
    /\ ret' = NONE
    /\ UNCHANGED <<guid, location, position, parent_positions, velocity,
                   old_velocity, chat_name, inventory, armed, descent, locations,
                   subscribed, cacheMembers, cachePos, cycleVars, schedVars, simVars>>

\* CommHandler.on_close
OnClose(s) ==
    /\ conn[s] \in {"open", "aborted"}
    /\ LET c == del_client(Ctx(s), s)
       IN /\ Commit(s, [c EXCEPT !.ran = "on_close"])
          /\ connections' = IF c.raised THEN connections
                            ELSE RemoveFirst(connections, s)
    /\ conn' = [conn EXCEPT ![s] = "closed"]
    /\ req' = [s |-> s, tag |-> "close", data |-> ""]
    /\ UNCHANGED <<cycleVars, schedVars, simVars>>

\* CommHandler.on_message for one inbound frame
Handle(s, m_type, data) ==
    /\ conn[s] = "open"
    /\ LET c == on_message(Ctx(s), s, m_type, data)
       IN /\ Commit(s, c)
          /\ conn' = [conn EXCEPT ![s] = IF c.raised THEN "aborted" ELSE "open"]
    /\ req' = [s |-> s, tag |-> m_type, data |-> data]
    /\ UNCHANGED <<connections, cycleVars, schedVars, simVars>>

MsgReg(s) ==
    \E data \in RegPayloads :
        /\ (data # "local" /\ location[s] # NoLocation) => location[s].x > -MaxSlide
        /\ MembersBounded
        /\ Handle(s, "reg", data)

MsgLev(s) ==
    \E data \in LevPayloads :
        /\ data.kind = "sub" => Len(parent_positions[s]) < MaxDepth
        /\ MembersBounded
        /\ Handle(s, "lev", data)

MsgCha(s) == \E data \in ChaPayloads : Handle(s, "cha", data)

MsgLoc(s) == \E data \in LocPayloads : Handle(s, "loc", data)

MsgUse(s) == \E data \in UsePayloads : Handle(s, "use", data)

MsgOther(s) == \E m_type \in OtherTags : Handle(s, m_type, "")

\* the session whose protocol is explored frame by frame
Client == "s1"

Next ==
    \E s \in {Client} :
        \/ Open(s)
        \/ OnClose(s)
        \/ MsgReg(s)
        \/ MsgLev(s)
        \/ MsgCha(s)
        \/ MsgLoc(s)
        \/ MsgUse(s)
        \/ MsgOther(s)

Spec == Init /\ [][Next]_vars

-----------------------------------------------------------------------------
(* Position updates: a registered or unregistered session sending loc      *)
(* frames whose four numbers range over the edges of the accepted region   *)

\* in halves: -1, -0.5, 0, 3750, 3750.5, 3751
LocXs == {-2, -1, 0, 7500, 7501, 7502}
LocYs == {-2, 7500, 7502}
\* in halves: -1, 1.5, 2 and -1.5, 0, 5
LocXDirs == {-2, 3, 4}
LocYDirs == {-3, 0, 10}

LocGrid == {LocPayload(x, y, xd, yd) :
                x \in LocXs, y \in LocYs, xd \in LocXDirs, yd \in LocYDirs}

LocReg == Handle(Client, "reg", "a") /\ location[Client] = NoLocation

LocUpdate == \E data \in LocGrid : Handle(Client, "loc", data)

LocNext == Open(Client) \/ LocReg \/ LocUpdate

SpecLoc == Init /\ [][LocNext]_vars

-----------------------------------------------------------------------------
(* Properties of the frame dispatch *)

\* the last step handled an inbound frame
FrameHandled == req.tag \notin {"", "open", "close"}

\* a step that answers with exactly one err frame and does nothing else
RejectedWith(text) ==
    /\ out' = <<Err(text)>>
    /\ ran' = "none"
    /\ bus' = <<>>
    /\ UNCHANGED <<sessionVars, processVars>>

NeedsGuid(tag) == tag \in REQUIRE_GUID
NeedsScene(tag) == tag \in REQUIRE_SCENE

\* C1 (as stated): a frame whose tag needs a guid, from a session whose guid
\* is unset, is answered by errNot Registered alone; otherwise one whose tag
\* needs a scene, from a session with no location, by errNo registered scene
\* alone; otherwise one whose tag has no handler by errUnknown Command alone;
\* no handler runs in these cases.
C1_FilterAsStated ==
    [][FrameHandled' =>
        LET tag == req'.tag
            s == req'.s
            noGuid == NeedsGuid(tag) /\ guid[s] = NONE
            noScene == ~noGuid /\ NeedsScene(tag) /\ location[s] = NoLocation
            unknown == ~noGuid /\ ~noScene /\ tag \notin callbacks
        IN /\ noGuid => RejectedWith("Not Registered")
           /\ noScene => RejectedWith("No registered scene")
           /\ unknown => RejectedWith("Unknown Command")]_vars

\* C2: reg with the guid "local" is answered by errBad GUID alone and changes
\* nothing: the guid stays unset, no inventory is seeded, no level is loaded,
\* and the next frame that needs a guid is answered by errNot Registered.
C2_BadGuidLeavesUnregistered ==
    [][/\ (FrameHandled' /\ req'.tag = "reg" /\ req'.data = "local") =>
            /\ out' = <<Err("Bad GUID")>>
            /\ bus' = <<>>
            /\ UNCHANGED <<sessionVars, processVars>>
       /\ (/\ req.tag = "reg"
           /\ req.data = "local"
           /\ guid[req.s] = NONE
           /\ FrameHandled'
           /\ req'.s = req.s
           /\ NeedsGuid(req'.tag)) => RejectedWith("Not Registered")]_vars

C2_Witness ==
    /\ req.tag = "reg"
    /\ req.data = "local"
    /\ out = <<Err("Bad GUID")>>
    /\ guid[Client] = NONE
    /\ inventory[Client] = EmptyInventory
    /\ location[Client] = NoLocation

ErrTexts == {"Invalid Position", "Bad Direction", "Bad Position",
             "Invalid level id", "Bad GUID", "Not Registered",
             "No registered scene", "Unknown Command"}

AnsweredWithErr(frames) ==
    \E i \in 1..Len(frames) : frames[i].tag = "err" /\ frames[i].arg \in ErrTexts

\* C3: a frame answered with an err response changes no attribute of the
\* session, no registry and no cache entry and publishes nothing; the
\* session stays open for later frames.
C3_ErrChangesNothing ==
    [][(FrameHandled' /\ AnsweredWithErr(out')) =>
            /\ UNCHANGED <<sessionVars, processVars>>
            /\ bus' = <<>>
            /\ conn'[req'.s] = "open"]_vars

\* an err answer given to a session that has moved, is armed and is a member
C3_Witness ==
    /\ FrameHandled
    /\ out = <<Err("Bad Position")>>
    /\ armed[Client]
    /\ velocity[Client] # <<0, 0>>
    /\ Client \in {locations[l][i] : l \in DOMAIN locations, i \in 1..1}

-----------------------------------------------------------------------------
(* Properties of the position update *)

LocHandled == FrameHandled /\ req.tag = "loc" /\ req.data.kind = "nums"

InUnit(v) == -1 <= v /\ v <= 1

\* the direction test of _on_position_update lets the update through
DirectionPasses(v) == InUnit(IntOfFloat(v[3])) \/ InUnit(IntOfFloat(v[4]))

MaxX == level_width * tilesize
MaxY == level_height * tilesize

\* the update was applied: position and velocity are those of the payload
Applied(s, v) ==
    /\ out' = <<>>
    /\ position'[s] = <<IntOfFloat(v[1]), IntOfFloat(v[2])>>
    /\ velocity'[s] = <<IntOfFloat(v[3]), IntOfFloat(v[4])>>

\* C4 (as stated): with a valid direction the update is accepted exactly
\* when the payload coordinates satisfy 0 <= x <= 3750 and 0 <= y <= 3750,
\* and any coordinate below 0 or above 3750 is answered by errBad Position.
C4_BoundsOnPayloadNumbers ==
    [][(LocHandled' /\ DirectionPasses(req'.data.v)) =>
        LET v == req'.data.v
            s == req'.s
            inside == /\ 0 <= v[1]
                      /\ v[1] <= 2 * MaxX
                      /\ 0 <= v[2]
                      /\ v[2] <= 2 * MaxY
        IN IF inside THEN Applied(s, v)
           ELSE out' = <<Err("Bad Position")>> /\ position'[s] = position[s]]_vars

\* C4 (amended): with a valid direction the update is accepted exactly when
\* the coordinates, truncated toward zero to integers, satisfy
\* 0 <= x <= 3750 and 0 <= y <= 3750; 3750 is accepted and stored, 3751 and
\* -1 are answered by errBad Position and leave the position alone.
C4_BoundsOnTruncatedNumbers ==
    [][(LocHandled' /\ DirectionPasses(req'.data.v)) =>
        LET v == req'.data.v
            s == req'.s
            x == IntOfFloat(v[1])
            y == IntOfFloat(v[2])
            inside == 0 <= x /\ x <= MaxX /\ 0 <= y /\ y <= MaxY
        IN IF inside THEN Applied(s, v)
           ELSE out' = <<Err("Bad Position")>> /\ position'[s] = position[s]]_vars

\* the corner 3750,3750 was accepted and is the session position
C4_Witness ==
    /\ LocHandled
    /\ req.data.v[1] = 2 * MaxX
    /\ req.data.v[2] = 2 * MaxY
    /\ out = <<>>
    /\ position[Client] = <<MaxX, MaxY>>

\* C5: both components of the session velocity are in {-1, 0, 1} in every
\* reachable state (a loc update with a component outside [-1,1] is not
\* applied).
C5_VelocityInUnitRange ==
    \A s \in Sessions : InUnit(velocity[s][1]) /\ InUnit(velocity[s][2])

\* C6: the update is answered by errBad Direction only when neither
\* direction component lies in [-1,1]; with one component in range, the
\* other out of range and a position inside the level it is applied to the
\* session velocity.
C6_DirectionCheckIsOr ==
    [][LocHandled' =>
        LET v == req'.data.v
            s == req'.s
            xIn == -2 <= v[3] /\ v[3] <= 2          \* halves
            yIn == -2 <= v[4] /\ v[4] <= 2
            x == IntOfFloat(v[1])
            y == IntOfFloat(v[2])
        IN /\ out' = <<Err("Bad Direction")>> => (~xIn /\ ~yIn)
           /\ (~InUnit(IntOfFloat(v[3])) /\ ~InUnit(IntOfFloat(v[4])))
                 => (out' = <<Err("Bad Direction")>> /\ velocity'[s] = velocity[s])
           /\ ((xIn # yIn) /\ 0 <= x /\ x <= MaxX /\ 0 <= y /\ y <= MaxY)
                 => Applied(s, v)]_vars

\* an update with x direction -1 and y direction 5 was applied
C6_Witness ==
    /\ LocHandled
    /\ req.data.v[3] = -2
    /\ req.data.v[4] = 10
    /\ out = <<>>
    /\ velocity[Client] = <<-1, 5>>

-----------------------------------------------------------------------------
(* The inventory of one open session under calls of the manager's methods  *)

Items == {"wsw.sharp.12", "f5", "p9"}

MaxCycleRun == 5

\* a call of a method of the manager, other than a forward cycle
InvCall(name, arg, c) ==
    /\ conn[Client] = "open"
    /\ Commit(Client, [c EXCEPT !.ran = name])
    /\ req' = [s |-> Client, tag |-> name, data |-> arg]
    /\ cycleBase' = c.ses.inventory
    /\ cycleRun' = 0
    /\ UNCHANGED <<conn, connections, schedVars, simVars>>

InvRegistered == InvCall("registered", "", registered(Ctx(Client)))

InvGive == \E code \in Items : InvCall("give_item", code, give_item(Ctx(Client), code))

InvDrop ==
    \E slot \in 0..4, update \in BOOLEAN :
        InvCall("drop_item", [slot |-> slot, update |-> update],
                drop_item(Ctx(Client), slot, update))

InvCycleBack == InvCall("cycle_items", "b", cycle_items(Ctx(Client), "b"))

InvCycleForward ==
    /\ conn[Client] = "open"
    /\ cycleRun < MaxCycleRun
    /\ LET c == cycle_items(Ctx(Client), "f")
       IN Commit(Client, [c EXCEPT !.ran = "cycle_items"])
    /\ req' = [s |-> Client, tag |-> "cycle_items", data |-> "f"]
    /\ cycleRun' = cycleRun + 1
    /\ UNCHANGED <<conn, connections, cycleBase, schedVars, simVars>>

InvEmpty == InvCall("empty_inventory", "", empty_inventory(Ctx(Client)))

InvNext ==
    \/ Open(Client)
    \/ InvRegistered
    \/ InvGive
    \/ InvDrop
    \/ InvCycleBack
    \/ InvCycleForward
    \/ InvEmpty

SpecInv == Init /\ [][InvNext]_vars

-----------------------------------------------------------------------------
(* Properties of the inventory *)

Count(inv) == Cardinality(Slots(inv))

Compact(inv) == Count(inv) <= 5 /\ Slots(inv) = 0..(Count(inv) - 1)

DropHandled == req.tag = "drop_item"

\* the step dropped an item with update=true: the items behind it moved up
\* by one slot, the others stayed
DropRenumbers ==
    (/\ DropHandled'
     /\ req'.data.update
     /\ req'.data.slot \in Slots(inventory[Client])) =>
        LET before == inventory[Client]
            after == inventory'[Client]
            slot == req'.data.slot
        IN /\ Slots(after) = 0..(Count(before) - 2)
           /\ \A k \in Slots(after) :
                  after[k] = IF k < slot THEN before[k] ELSE before[k + 1]

\* C7: after any sequence of registered, give_item, drop_item, cycle_items
\* and empty_inventory the occupied slots are exactly 0..n-1 with n <= 5,
\* and drop_item(slot, update=true) removes the slot's item and renumbers the
\* others to 0..n-2 in their order.
C7_SlotsStayCompact ==
    /\ [](\A s \in Sessions : Compact(inventory[s]))
    /\ [][DropRenumbers]_vars

\* slot 1 of three items was dropped: slots 0 and 1 are left
C7_Witness ==
    /\ DropHandled
    /\ req.data.update
    /\ req.data.slot = 1
    /\ Slots(inventory[Client]) = {0, 1}

\* C8: give_item on a full inventory returns false and changes no slot;
\* otherwise it returns true and stores the code in the lowest free slot of
\* 0..4, leaving the other slots as they were.
C8_GiveItem ==
    [][req'.tag = "give_item" =>
        LET before == inventory[Client]
            after == inventory'[Client]
            free == (0..4) \ Slots(before)
        IN IF Count(before) = 5
           THEN ret' = "False" /\ after = before
           ELSE /\ ret' = "True"
                /\ \E i \in free :
                      /\ \A j \in free : i <= j
                      /\ Slots(after) = Slots(before) \cup {i}
                      /\ after[i] = req'.data
                      /\ \A k \in Slots(before) : after[k] = before[k]]_vars

\* give_item was refused on a full inventory
C8_Witness ==
    /\ req.tag = "give_item"
    /\ ret = "False"
    /\ Count(inventory[Client]) = 5

\* C9 (as stated): five consecutive forward cycles return every inventory,
\* full or partially filled, to its original arrangement.
C9_FiveCyclesIdentity == cycleRun = 5 => inventory[Client] = cycleBase

\* C9 (amended): cycle_items rotates over the n occupied slots only, so n
\* consecutive forward cycles (and any multiple of n) return the inventory
\* to its original arrangement; five cycles do so for a full inventory.
C9_CountCyclesIdentity ==
    LET n == Count(inventory[Client])
    IN /\ n = Count(cycleBase)
       /\ (n = 0 \/ cycleRun % (IF n = 0 THEN 1 ELSE n) = 0)
             => inventory[Client] = cycleBase

\* five forward cycles on a full inventory of different items
C9_Witness ==
    /\ cycleRun = 5
    /\ Count(inventory[Client]) = 5
    /\ inventory[Client][0] # inventory[Client][1]
    /\ inventory[Client] = cycleBase

-----------------------------------------------------------------------------
(* internals/entities/entities.py: ScheduleHelper, with the callbacks an   *)
(* Animat puts on it.  An entry of the queue is (then, callback); `id`     *)
(* numbers the schedule() call that made it and is not read by the code.   *)

MaxClock == 6
MaxCalls == 3

\* 0.25 seconds and one second, in clock units
Quarter == 1
Second == 4

Entry(then, cb, id) == [then |-> then, cb |-> cb, id |-> id]

Sched == [q |-> schedule_queue, clock |-> clock, nextId |-> nextId,
          alive |-> alive, fired |-> fired,
          a |-> [animat EXCEPT !.said = <<>>]]

\* the index schedule() inserts at: the first entry that is not earlier
InsertAt(q, then) ==
    IF \E i \in 1..Len(q) : q[i].then >= then
    THEN CHOOSE i \in 1..Len(q) :
             /\ q[i].then >= then
             /\ \A j \in 1..(i - 1) : q[j].then < then
    ELSE Len(q) + 1

\* ScheduleHelper.schedule
schedule(st, seconds, callback) ==
    LET then == st.clock + seconds
        i == InsertAt(st.q, then)
        e == Entry(then, callback, st.nextId)
    IN [st EXCEPT !.q = SubSeq(@, 1, i - 1) \o <<e>> \o SubSeq(@, i, Len(@)),
                  !.nextId = @ + 1,
                  !.alive = @ \cup {st.nextId},
                  !.fired = PutKey(@, st.nextId, 0)]

\* ScheduleHelper.deschedule
deschedule(st, callback) ==
    LET RECURSIVE keep(_)
        keep(q) == IF q = <<>> THEN <<>>
                   ELSE IF Head(q).cb # callback THEN <<Head(q)>> \o keep(Tail(q))
                   ELSE keep(Tail(q))
    IN [st EXCEPT !.q = keep(@),
                  !.alive = @ \ {st.q[i].id : i \in {j \in 1..Len(st.q) :
                                                        st.q[j].cb = callback}}]

\* Animat.deschedule_all
deschedule_all(st) ==
    [st EXCEPT !.q = <<>>,
               !.alive = @ \ {st.q[i].id : i \in 1..Len(st.q)}]

\* Animat.wander
wander(st) == schedule(st, Quarter, "callback")

\* Animat.has_work
has_work(a) == a.velocity[1] # 0 \/ a.velocity[2] # 0

\* Entity.broadcast_changes, for an entity that is alone in its location
broadcast_changes(a) ==
    [a EXCEPT !.said = Append(@, [tag |-> "epu", x_vel |-> a.velocity[1],
                                  y_vel |-> a.velocity[2], layer |-> a.layer])]

\* Entity.write_chat
write_chat(a, text) == [a EXCEPT !.said = Append(@, [tag |-> "cha", text |-> text])]

\* Animat.move
move(a, x_vel, y_vel) ==
    IF x_vel = a.velocity[1] /\ y_vel = a.velocity[2] THEN a
    ELSE broadcast_changes(
             [a EXCEPT !.old_velocity = a.velocity,
                       !.velocity = <<x_vel, y_vel>>,
                       !.layer = IF x_vel # 0 \/ y_vel # 0 THEN 1 ELSE 0])

\* SentientAnimat.wander
sentient_wander(st) ==
    IF st.s.fleeing # {} \/ st.s.chasing # NONE THEN st ELSE wander(st)

\* the callbacks of a SentientAnimat, defined with the class further down
RECURSIVE _reevaluate_behavior(_, _)
RECURSIVE sentient_callback(_, _)
RECURSIVE sentient_stop_wandering(_, _)

\* What firing a callback does to the queue.  ch holds the draws of the
\* pass: whether _get_best_direction finds a direction and the two randint.
\* A state with the part `s` is that of a SentientAnimat, whose methods
\* override those of Animat.
RunCallback(st, cb, ch) ==
    IF "s" \in DOMAIN st
    THEN LET called == [st EXCEPT !.ran = Append(@, cb)]
         IN IF cb = "wander" THEN sentient_wander(called)
            ELSE IF cb = "callback" THEN sentient_callback(called, ch)
            ELSE IF cb = "stop_wandering"
            THEN sentient_stop_wandering(called, ch)
            ELSE IF cb = "_reevaluate_behavior"
            THEN _reevaluate_behavior(called, ch)
            ELSE called
    ELSE IF cb = "wander" THEN wander(st)
    ELSE IF cb = "callback"                       \* the closure of wander
    THEN IF ch.stuck THEN [st EXCEPT !.a = write_chat(@, "I'm stuck!")]
         ELSE schedule([st EXCEPT !.a = [move(@, ch.dir[1], ch.dir[2])
                                            EXCEPT !.wandering = "True"]],
                       ch.wanderFor * Second, "stop_wandering")
    ELSE IF cb = "stop_wandering"
    THEN schedule([st EXCEPT !.a = [move(@, 0, 0) EXCEPT !.wandering = "False"]],
                  ch.restFor * Second, "wander")
    ELSE st                                       \* _on_event

MarkFired(st, e) == [st EXCEPT !.fired = PutKey(@, e.id, @[e.id] + 1)]

\* the trim of fire_events at the first entry that is still in the future:
\* schedule_queue[i:], i counting from 1 here
Trim_keeps_last_fired(q, i) == SubSeq(q, i - 1, Len(q))

Trim(q, i) == SubSeq(q, i, Len(q))

\* The loop of fire_events over xrange(n), n the length of the queue when
\* the pass began; i counts from 1.
RECURSIVE FireLoop(_, _, _, _, _)
FireLoop(st, i, n, now, ch) ==
    IF i > n THEN [st EXCEPT !.q = <<>>]
    ELSE LET e == st.q[i]
         IN IF e.then <= now
            THEN FireLoop(RunCallback(MarkFired(st, e), e.cb, ch), i + 1, n, now, ch)
            ELSE IF i > 1
                 THEN [st EXCEPT !.q = Trim(@, i)]
                 ELSE st

\* ScheduleHelper.fire_events
fire_events(st, now, ch) == FireLoop(st, 1, Len(st.q), now, ch)

-----------------------------------------------------------------------------
(* The queue of one Animat under the worker's loop *)

SchedCommit(st) ==
    /\ schedule_queue' = st.q
    /\ nextId' = st.nextId
    /\ alive' = st.alive
    /\ fired' = st.fired
    /\ animat' = st.a
    /\ calls' = OtherCall
    /\ UNCHANGED <<clock, sessionVars, processVars, traceVars, cycleVars,
                   workerVars, sentVars, levelVars, visits>>

Callbacks == {"wander", "callback", "stop_wandering", "_on_event"}

\* the velocities a caller of move is let to pick from, besides (0, 0)
Dirs == {<<1, 0>>, <<0, -1>>}

Draws == [stuck : BOOLEAN, wanderFor : {1, 2}, restFor : {1, 2},
          dir : {<<1, 0>>}]

SchedSchedule ==
    \E seconds \in {0, Second}, cb \in {"_on_event", "stop_wandering"} :
        /\ nextId < MaxCalls
        /\ SchedCommit(schedule(Sched, seconds, cb))

SchedWander ==
    /\ nextId < MaxCalls
    /\ SchedCommit(wander(Sched))

SchedDeschedule == \E cb \in Callbacks : SchedCommit(deschedule(Sched, cb))

SchedDescheduleAll == SchedCommit(deschedule_all(Sched))

\* one pass of the loop of EntityServlet.run over this entity: `now` was read
\* at the top of the iteration, up to a quarter before the callbacks run
SchedFire ==
    \E lag \in {0, Quarter}, ch \in Draws :
        /\ lag <= clock
        /\ LET st == fire_events(Sched, clock - lag, ch)
           IN st.nextId <= MaxCalls /\ SchedCommit(st)

SchedTick ==
    /\ clock < MaxClock
    /\ clock' = clock + 1
    /\ UNCHANGED <<schedule_queue, nextId, alive, fired, sessionVars,
                   processVars, traceVars, cycleVars, simVars>>

SchedNext ==
    \/ SchedSchedule
    \/ SchedWander
    \/ SchedDeschedule
    \/ SchedDescheduleAll
    \/ SchedFire
    \/ SchedTick

SpecSched == Init /\ [][SchedNext]_vars

-----------------------------------------------------------------------------
(* An Animat that is told to move while its timer queue is in use *)

\* a caller (do_work, a behaviour, a test) calls move
AnimatMove ==
    \E v \in Dirs \cup {<<0, 0>>} :
        /\ animat' = move(Sched.a, v[1], v[2])
        /\ calls' = [op |-> "move", v |-> v]
        /\ UNCHANGED <<schedVars, sessionVars, processVars, traceVars,
                       cycleVars, workerVars, sentVars, levelVars, visits>>

AnimatNext ==
    \/ SchedWander
    \/ SchedFire
    \/ SchedTick
    \/ AnimatMove

SpecAnimat == Init /\ [][AnimatNext]_vars

-----------------------------------------------------------------------------
(* Properties of the timer queue *)

Queued == {schedule_queue[i].id : i \in 1..Len(schedule_queue)}

\* C10: a scheduled callback that was not descheduled stays in the queue
\* until a pass of fire_events fires it, also when it was scheduled by a
\* callback that the pass was firing.
C10_NoCallbackLost ==
    \A id \in alive : fired[id] = 0 => id \in Queued

\* C11: no scheduled entry fires more than once: not within one pass of
\* fire_events, also when a callback of the pass schedules new entries and
\* so shifts the positions of the queue, and not in a later pass, because an
\* entry that has fired is no longer in the queue.
C11_FiresAtMostOnce ==
    \A id \in DOMAIN fired :
        /\ fired[id] <= 1
        /\ fired[id] = 1 => id \notin Queued

\* a pass fired stop_wandering, whose callback scheduled wander in front of
\* an entry that is still in the future
C11_Witness ==
    /\ Len(schedule_queue) >= 2
    /\ schedule_queue[1].cb = "wander"
    /\ \E id \in DOMAIN fired : fired[id] = 1 /\ id < schedule_queue[1].id

-----------------------------------------------------------------------------
(* internals/entities/entities.py: Entity, as the location worker holds it *)

\* the players a front end can announce to a worker
Guids == {"p1", "p2"}

\* the largest tile distance inside a level, with room to spare
MaxTiles == 110

\* int(hypot(dx, dy) / tile): the whole tiles that fit into the distance
TileDistance_rounded(dx, dy, tile) ==
    CHOOSE d \in 0..MaxTiles :
        /\ \/ d = 0
           \/ (2 * d - 1) * (2 * d - 1) * tile * tile <= 4 * (dx * dx + dy * dy)
        /\ 4 * (dx * dx + dy * dy) < (2 * d + 1) * (2 * d + 1) * tile * tile

TileDistance(dx, dy, tile) ==
    CHOOSE d \in 0..MaxTiles :
        /\ d * d * tile * tile <= dx * dx + dy * dy
        /\ dx * dx + dy * dy < (d + 1) * (d + 1) * tile * tile

\* Entity.get_prefix
get_prefix == "%"

\* what follows the first character in the ids and guids of the model
IdRests == {"1", "2", "3", "x"}

\* str.startswith
startswith(text, prefix) == \E rest \in IdRests : text = prefix \o rest

\* Entity.__init__ and place, with what Animat.__init__ and
\* ScheduleHelper.__init__ add
\* `destroyed` counts the calls of destroy and is not read by the code
NewEntity(id, x, y) ==
    [id |-> id, position |-> <<x, y>>,
     remembered_distances |-> [g \in {} |-> 0],
     schedule_queue |-> <<>>,
     a |-> NewAnimat,
     destroyed |-> 0]

\* Entity.forget
forget(e, g) ==
    IF g \in DOMAIN e.remembered_distances
    THEN [e EXCEPT !.remembered_distances = DropKey(@, g)]
    ELSE e

\* Entity._player_movement; the result is the entity and the calls of
\* on_player_range it made
_player_movement(e, g, x, y) ==
    LET distance == TileDistance(x - e.position[1], y - e.position[2], tilesize)
    IN IF /\ g \in DOMAIN e.remembered_distances
          /\ e.remembered_distances[g] = distance
       THEN [e |-> e, calls |-> <<>>]
       ELSE [e |-> [e EXCEPT !.remembered_distances = PutKey(@, g, distance)],
             calls |-> <<[id |-> e.id, guid |-> g, distance |-> distance]>>]

-----------------------------------------------------------------------------
(* One entity that is told where the players are *)

RangeXs == {0, 100, 145, 155, 200}
RangeYs == {0, 50}

Did(thread, op) == [thread |-> thread, op |-> op]

RangeFrame == <<sessionVars, processVars, traceVars, cycleVars, schedVars,
                animatVars, sentVars, levelVars, visits, players, ttl, timers, wstate, wpc, inQ, outQ,
                arrived, handled, produced, published, loop_now,
                last_loop_iteration>>

RangePlace ==
    \E x \in {0, 100}, y \in {0} :
        /\ entities = <<>>
        /\ entities' = <<NewEntity("%1", x, y)>>
        /\ ranged' = <<>>
        /\ did' = Did("main", [name |-> "place", x |-> x, y |-> y])
        /\ UNCHANGED RangeFrame

RangeMove ==
    \E g \in Guids, x \in RangeXs, y \in RangeYs :
        /\ entities # <<>>
        /\ LET r == _player_movement(entities[1], g, x, y)
           IN /\ entities' = <<r.e>>
              /\ ranged' = r.calls
        /\ did' = Did("main", [name |-> "_player_movement", guid |-> g,
                               x |-> x, y |-> y])
        /\ UNCHANGED RangeFrame

RangeForget ==
    \E g \in Guids :
        /\ entities # <<>>
        /\ entities' = <<forget(entities[1], g)>>
        /\ ranged' = <<>>
        /\ did' = Did("main", [name |-> "forget", guid |-> g])
        /\ UNCHANGED RangeFrame

RangeNext ==
    \/ RangePlace
    \/ RangeMove
    \/ RangeForget

SpecRange == Init /\ [][RangeNext]_vars

\* the square of the distance, in pixels, that the last _player_movement
\* call put between its player and the entity
RangeD2(e, call) ==
    (call.x - e.position[1]) * (call.x - e.position[1])
        + (call.y - e.position[2]) * (call.y - e.position[2])

-----------------------------------------------------------------------------
(* internals/entity_servlet.py: the worker of one location.  A handler is  *)
(* an operator on a record w of what the worker process holds.             *)

\* positions of simulated players are kept in twentieths of a pixel, the
\* distance a player covers in one clock unit (0.25 s at constants.speed)
Sub == 20
speed == 1

Worker == [entities |-> entities, players |-> players, ttl |-> ttl,
           timers |-> timers, outQ |-> outQ, produced |-> produced,
           ranged |-> <<>>, nextId |-> nextId, alive |-> alive,
           fired |-> fired, raised |-> FALSE, left |-> <<>>, heard |-> <<>>]

\* SimulatedPlayer.__init__
SimulatedPlayer(g) ==
    [id |-> g, position |-> <<0, 0>>, velocity |-> <<0, 0>>, updated |-> FALSE]

\* SimulatedPlayer.post_velocity
post_velocity(p, x, y, x_vel, y_vel) ==
    [p EXCEPT !.position = <<x * Sub, y * Sub>>,
              !.velocity = <<x_vel, y_vel>>,
              !.updated = TRUE]

\* SimulatedPlayer.on_tick: the player after the tick, and whether a
\* distance function is returned
on_tick(p, period) ==
    LET moved == [p EXCEPT !.position =
                      <<p.position[1] + p.velocity[1] * period * speed,
                        p.position[2] + p.velocity[2] * period * speed>>]
        did_update == p.velocity[1] # 0 \/ p.velocity[2] # 0
    IN IF did_update \/ p.updated
       THEN [p |-> [moved EXCEPT !.updated = FALSE], output |-> TRUE]
       ELSE [p |-> moved, output |-> FALSE]

\* the function on_tick returns, truncated by int() in run
PlayerDistance(p, e) ==
    TileDistance(e.position[1] * Sub - p.position[1],
                 e.position[2] * Sub - p.position[2], tilesize * Sub)

\* EntityServlet.notify_location
notify_location(w, command, message) ==
    LET m == [cmd |-> command, arg |-> message]
    IN [w EXCEPT !.outQ = Append(@, m), !.produced = Append(@, m)]

\* EntityServlet.spawn_entity
spawn_entity(w, e) == notify_location(w, "spa", e.id)

RECURSIVE SpawnAll(_, _)
SpawnAll(w, i) ==
    IF i > Len(w.entities) THEN w
    ELSE SpawnAll(spawn_entity(w, w.entities[i]), i + 1)

\* the ids Entity.__init__ gives to the entities of a worker
EntityId(n) == get_prefix \o (IF n = 1 THEN "1" ELSE IF n = 2 THEN "2" ELSE "3")

\* an entity class of the location: an Animat that stays where it is placed
\* and may have put one event of its own on its queue
Construct(w, x, y, busy) ==
    LET e == NewEntity(EntityId(Len(w.entities) + 1), x * tilesize, y * tilesize)
        st == schedule([q |-> <<>>, clock |-> clock, nextId |-> w.nextId,
                        alive |-> w.alive, fired |-> w.fired, a |-> e.a],
                       Quarter, "_on_event")
    IN IF busy
       THEN [w |-> [w EXCEPT !.nextId = st.nextId, !.alive = st.alive,
                             !.fired = st.fired],
             e |-> [e EXCEPT !.schedule_queue = st.q]]
       ELSE [w |-> w, e |-> e]

\* EntityServlet.spawn_initial_entities; layout lists, for every entity to
\* spawn, the tile it is placed on and what its constructor did
RECURSIVE spawn_initial_entities(_, _)
spawn_initial_entities(w, layout) ==
    IF layout = <<>> THEN w
    ELSE LET c == Construct(w, Head(layout).x, Head(layout).y, Head(layout).busy)
             w1 == [c.w EXCEPT !.entities = Append(@, c.e)]
         IN spawn_initial_entities(spawn_entity(w1, c.e), Tail(layout))

\* threading.Timer.cancel: it stops a timer that is still waiting
cancel_without_effect(w, t) == w

cancel(w, t) ==
    IF w.timers[t].st = "waiting"
    THEN [w EXCEPT !.timers[t].st = "cancelled"]
    ELSE w

\* EntityServlet.on_enter
on_enter(w, g, initial, layout) ==
    LET w1 == IF w.ttl # 0 THEN cancel(w, w.ttl) ELSE w
        first == initial /\ w.ttl = 0
        w2 == IF first /\ layout # <<>>
              THEN spawn_initial_entities(w1, layout)
              ELSE SpawnAll(w1, 1)
    IN [w2 EXCEPT !.players = PutKey(@, g, SimulatedPlayer(g))]

\* EntityServlet.on_leave
on_leave(w, user) ==
    LET w1 == [w EXCEPT !.entities =
                   [i \in 1..Len(w.entities) |-> forget(w.entities[i], user)],
                        !.left = Append(@, user)]
    IN IF user \notin DOMAIN w1.players THEN [w1 EXCEPT !.raised = TRUE]
       ELSE LET w2 == [w1 EXCEPT !.players = DropKey(@, user)]
            IN IF DOMAIN w2.players = {}
               THEN [w2 EXCEPT !.timers = Append(@, [st |-> "waiting", i |-> 0]),
                               !.ttl = Len(w2.timers) + 1]
               ELSE w2

\* Entity.handle_message for every entity of the worker; `heard` lists the
\* calls
RECURSIVE Forward(_, _, _)
Forward(w, m, i) ==
    IF i > Len(w.entities) \/ w.raised THEN w
    ELSE LET w1 == [w EXCEPT !.heard = Append(@, <<w.entities[i].id, m.tag>>)]
         IN IF m.tag = "loc"
            THEN LET r == _player_movement(w.entities[i], m.guid, m.x, m.y)
                 IN Forward([w1 EXCEPT !.entities[i] = r.e,
                                       !.ranged = @ \o r.calls], m, i + 1)
            ELSE IF m.tag = "cha" /\ startswith(m.guid, "@")
            THEN [w1 EXCEPT !.raised = TRUE]        \* the assert
            ELSE Forward(w1, m, i + 1)

MESSAGES_TO_IGNORE == {"spa", "epu"}
MESSAGES_TO_INSPECT == {"del", "cha"}

\* EntityServlet._handle_event, for an event of this location
_handle_event(w, event) ==
    LET m == event.data
    IN IF event.channel = "global::enter"
       THEN on_enter(w, m.guid, FALSE, <<>>)
       ELSE IF \/ m.tag \in MESSAGES_TO_IGNORE
               \/ (m.tag \in MESSAGES_TO_INSPECT /\ startswith(m.guid, "@"))
       THEN w
       ELSE LET w1 == IF m.tag = "del" THEN on_leave(w, m.guid)
                      ELSE IF m.tag = "loc"
                      THEN IF m.guid \in DOMAIN w.players
                           THEN [w EXCEPT !.players[m.guid] =
                                     post_velocity(@, m.x, m.y, m.x_vel, m.y_vel)]
                           ELSE [w EXCEPT !.raised = TRUE]
                      ELSE w
            IN IF w1.raised THEN w1 ELSE Forward(w1, m, 1)

\* Animat.destroy
destroy(w, i) ==
    LET e == w.entities[i]
        w1 == notify_location(w, "del", e.id)
    IN [w1 EXCEPT !.entities[i].schedule_queue = <<>>,
                  !.entities[i].destroyed = @ + 1,
                  !.alive = @ \ {e.schedule_queue[j].id :
                                     j \in 1..Len(e.schedule_queue)}]

\* the entity part of one loop iteration.  No entity of this worker moves,
\* so has_work is false for each and do_work is not called.
RECURSIVE EntityPass(_, _, _)
EntityPass(w, i, t) ==
    IF i > Len(w.entities) THEN w
    ELSE LET e == w.entities[i]
             st == fire_events([q |-> e.schedule_queue, clock |-> clock,
                                nextId |-> w.nextId, alive |-> w.alive,
                                fired |-> w.fired, a |-> e.a],
                               t, [stuck |-> TRUE, wanderFor |-> 1,
                                   restFor |-> 1, dir |-> <<1, 0>>])
         IN EntityPass([w EXCEPT !.entities[i].schedule_queue = st.q,
                                 !.entities[i].a = st.a,
                                 !.nextId = st.nextId,
                                 !.alive = st.alive,
                                 !.fired = st.fired], i + 1, t)

\* remembered_distances == distance (entity_servlet.py:188): a dict is
\* compared with a number, and the two are never equal
DictEqualsNumber(dict, n) == FALSE

\* the distance part of one loop iteration for one player: lines 183-192
RECURSIVE Remeasure(_, _, _)
Remeasure(w, g, i) ==
    IF i > Len(w.entities) THEN w
    ELSE LET e == w.entities[i]
             distance == PlayerDistance(w.players[g], e)
         IN IF /\ g \in DOMAIN e.remembered_distances
               /\ DictEqualsNumber(e.remembered_distances, distance)
            THEN Remeasure(w, g, i + 1)
            ELSE Remeasure(
                     [w EXCEPT !.entities[i].remembered_distances =
                                   PutKey(@, g, distance),
                               !.ranged = Append(@, [id |-> e.id, guid |-> g,
                                                     distance |-> distance])],
                     g, i + 1)

\* the order in which self.players.items() yields the players
GuidOrder == <<"p1", "p2">>

\* the player part of one loop iteration: lines 180-192
RECURSIVE PlayerPass(_, _, _)
PlayerPass(w, k, period) ==
    IF k > Len(GuidOrder) THEN w
    ELSE LET g == GuidOrder[k]
         IN IF g \notin DOMAIN w.players THEN PlayerPass(w, k + 1, period)
            ELSE LET r == on_tick(w.players[g], period)
                     w1 == [w EXCEPT !.players[g] = r.p]
                 IN PlayerPass(IF r.output THEN Remeasure(w1, g, 1) ELSE w1,
                               k + 1, period)

-----------------------------------------------------------------------------
(* The worker process: the main loop of run, the reader thread and the     *)
(* despawn timers                                                          *)

MaxMsgs == 4
MaxTicks == 1

\* what pubsub.listen() yields
Subscribed == [type |-> "subscribe", channel |-> "", data |-> [tag |-> ""]]
EnterEvent(g) ==
    [type |-> "message", channel |-> "global::enter",
     data |-> [tag |-> "enter", guid |-> g]]
DelEvent(g) ==
    [type |-> "message", channel |-> "location::p",
     data |-> [tag |-> "del", guid |-> g]]
LocEvent(g, x, y, x_vel, y_vel) ==
    [type |-> "message", channel |-> "location::p",
     data |-> [tag |-> "loc", guid |-> g, x |-> x, y |-> y,
               x_vel |-> x_vel, y_vel |-> y_vel]]

\* the player whose arrival started the worker
InitialGuid == "p1"

\* the players the front end has in the location after it sent evs
RECURSIVE InLocation(_)
InLocation(evs) ==
    IF evs = <<>> THEN {InitialGuid}
    ELSE LET ev == evs[Len(evs)]
             before == InLocation(SubSeq(evs, 1, Len(evs) - 1))
         IN IF ev.channel = "global::enter" THEN before \cup {ev.data.guid}
            ELSE IF ev.data.tag = "del" THEN before \ {ev.data.guid}
            ELSE before

\* what the bus yields next: the confirmation of the subscriptions first,
\* then the events of a front end that has one session for each guid
BusEvents ==
    IF arrived = <<>> THEN {Subscribed}
    ELSE {EnterEvent(g) : g \in Guids \ InLocation(arrived)}
             \cup {DelEvent(g) : g \in InLocation(arrived)}
             \cup {LocEvent(g, 100, 0, 1, 0) : g \in InLocation(arrived)}

\* what get_entities_to_spawn and the constructors can come up with
Layouts ==
    {<<>>,
     <<[x |-> 2, y |-> 0, busy |-> FALSE], [x |-> 3, y |-> 0, busy |-> TRUE]>>}

WorkerFrame == <<sessionVars, processVars, traceVars, cycleVars, animatVars,
                 sentVars, levelVars, visits,
                 schedule_queue>>

\* what a handler run leaves behind (WCommit); an exception that leaves
\* run ends the process (Survives)
WCommit(w) ==
    /\ entities' = w.entities
    /\ players' = w.players
    /\ ttl' = w.ttl
    /\ timers' = w.timers
    /\ outQ' = w.outQ
    /\ produced' = w.produced
    /\ ranged' = w.ranged
    /\ nextId' = w.nextId
    /\ alive' = w.alive
    /\ fired' = w.fired

Survives(w) == wstate' = IF w.raised THEN "crashed" ELSE wstate

\* EntityServlet.run up to the loop
WorkerStart ==
    \E layout \in Layouts :
        /\ wstate = "new"
        /\ LET w == on_enter(Worker, InitialGuid, TRUE, layout)
           IN /\ WCommit(w)
              /\ wstate' = "running"
        /\ loop_now' = clock
        /\ last_loop_iteration' = 0
        /\ wpc' = "drain"
        /\ did' = Did("main", [name |-> "start"])
        /\ UNCHANGED <<WorkerFrame, clock, inQ, arrived, handled, published>>

\* Queue.put on the reader's output_queue
put_in_front(q, ev) == <<ev>> \o q

put(q, ev) == Append(q, ev)

\* ThreadedRedisReader.run
Enqueue(ev) ==
    /\ wstate = "running"
    /\ Len(arrived) < MaxMsgs
    /\ inQ' = put(inQ, ev)
    /\ arrived' = Append(arrived, ev)
    /\ ranged' = <<>>
    /\ did' = Did("reader", [name |-> "put"])
    /\ UNCHANGED <<WorkerFrame, schedVars, entities, players, ttl, timers,
                   wstate, wpc, outQ, handled, produced, published,
                   loop_now, last_loop_iteration>>

ReaderEnqueue == \E ev \in BusEvents : Enqueue(ev)

\* lines 165-169, one event of get_events
MainDrain ==
    /\ wstate = "running"
    /\ wpc = "drain"
    /\ inQ # <<>>
    /\ inQ' = Tail(inQ)
    /\ handled' = Append(handled, Head(inQ))
    /\ LET w == IF Head(inQ).type # "message" THEN Worker
                ELSE _handle_event(Worker, Head(inQ))
       IN WCommit(w) /\ Survives(w)
    /\ LET w == IF Head(inQ).type # "message" THEN Worker
                ELSE _handle_event(Worker, Head(inQ))
       IN did' = Did("main", [name |-> "_handle_event", left |-> w.left,
                              heard |-> w.heard])
    /\ UNCHANGED <<WorkerFrame, clock, wpc, arrived, published, loop_now,
                   last_loop_iteration>>

\* lines 172-177, entered when the queue is found empty
MainEntities ==
    /\ wstate = "running"
    /\ wpc = "drain"
    /\ inQ = <<>>
    /\ WCommit(EntityPass(Worker, 1, loop_now))
    /\ wstate' = wstate
    /\ wpc' = "players"
    /\ did' = Did("main", [name |-> "fire_events"])
    /\ UNCHANGED <<WorkerFrame, clock, inQ, arrived, handled, published,
                   loop_now, last_loop_iteration>>

\* lines 180-192
MainPlayers ==
    /\ wstate = "running"
    /\ wpc = "players"
    /\ WCommit(PlayerPass(Worker, 1, loop_now - last_loop_iteration))
    /\ wstate' = wstate
    /\ wpc' = "flush"
    /\ did' = Did("main", [name |-> "on_tick"])
    /\ UNCHANGED <<WorkerFrame, clock, inQ, arrived, handled, published,
                   loop_now, last_loop_iteration>>

\* lines 195-197 and the top of the next iteration, lines 156-162
MainFlush ==
    /\ wstate = "running"
    /\ wpc = "flush"
    /\ published' = published \o outQ
    /\ outQ' = <<>>
    /\ last_loop_iteration' = loop_now
    /\ loop_now' = clock
    /\ wpc' = "drain"
    /\ ranged' = <<>>
    /\ did' = Did("main", [name |-> "flush"])
    /\ UNCHANGED <<WorkerFrame, schedVars, entities, players, ttl, timers,
                   wstate, inQ, arrived, handled, produced>>

\* threading.Timer.run finds the delay over and calls cleanup, which enters
\* _end: lines 277-279 and 123-124
TimerFire ==
    \E t \in 1..Len(timers) :
        /\ wstate = "running"
        /\ timers[t].st = "waiting"
        /\ LET w == [Worker EXCEPT !.timers[t] = [st |-> "cleanup", i |-> 1]]
           IN WCommit(IF w.ttl # 0 THEN cancel(w, w.ttl) ELSE w)
        /\ wstate' = wstate
        /\ did' = Did("timer", [name |-> "cleanup"])
        /\ UNCHANGED <<WorkerFrame, clock, wpc, inQ, arrived, handled,
                       published, loop_now, last_loop_iteration>>

\* _end, lines 127-128, one entity
TimerDestroy ==
    \E t \in 1..Len(timers) :
        /\ wstate = "running"
        /\ timers[t].st = "cleanup"
        /\ timers[t].i <= Len(entities)
        /\ WCommit([destroy(Worker, timers[t].i) EXCEPT !.timers[t].i = @ + 1])
        /\ wstate' = wstate
        /\ did' = Did("timer", [name |-> "destroy"])
        /\ UNCHANGED <<WorkerFrame, clock, wpc, inQ, arrived, handled,
                       published, loop_now, last_loop_iteration>>

\* _end, line 130
TimerTerminate ==
    \E t \in 1..Len(timers) :
        /\ wstate = "running"
        /\ timers[t].st = "cleanup"
        /\ timers[t].i > Len(entities)
        /\ timers' = [timers EXCEPT ![t].st = "done"]
        /\ wstate' = "terminated"
        /\ ranged' = <<>>
        /\ did' = Did("timer", [name |-> "terminate"])
        /\ UNCHANGED <<WorkerFrame, schedVars, entities, players, ttl, wpc,
                       inQ, outQ, arrived, handled, produced, published,
                       loop_now, last_loop_iteration>>

\* time passes; the loop reads the clock where one iteration ends and the
\* next begins
WorkerTick ==
    /\ wstate = "running"
    /\ wpc = "flush"
    /\ clock < MaxTicks
    /\ clock' = clock + 1
    /\ ranged' = <<>>
    /\ did' = Did("clock", [name |-> "time"])
    /\ UNCHANGED <<WorkerFrame, nextId, alive, fired, entities, players, ttl,
                   timers, wstate, wpc, inQ, outQ, arrived, handled, produced,
                   published, loop_now, last_loop_iteration>>

WorkerNext ==
    \/ WorkerStart
    \/ ReaderEnqueue
    \/ MainDrain
    \/ MainEntities
    \/ MainPlayers
    \/ MainFlush
    \/ TimerFire
    \/ TimerDestroy
    \/ TimerTerminate
    \/ WorkerTick

SpecWorker == Init /\ [][WorkerNext]_vars

\* a timer thread is not held up for ever: it runs when its delay is over
\* and it goes through cleanup once it has begun
SpecWorkerFair ==
    /\ SpecWorker
    /\ WF_vars(TimerFire)
    /\ WF_vars(TimerDestroy)
    /\ WF_vars(TimerTerminate)

\* the entity of the worker that has the id
EntityOf(id) == entities[CHOOSE i \in 1..Len(entities) : entities[i].id = id]

\* C14: in the player part of a loop iteration on_player_range(guid,
\* distance) is called only on entities whose bucketed distance to that
\* player differs from the value they remember for the guid (or that
\* remember none); a player who moves inside the same bucket of an entity
\* causes no call on that entity.
C14_LoopRangesOnBucketChange ==
    [][(did'.thread = "main" /\ did'.op.name = "on_tick") =>
          \A k \in 1..Len(ranged') :
              LET before == EntityOf(ranged'[k].id).remembered_distances
              IN \/ ranged'[k].guid \notin DOMAIN before
                 \/ before[ranged'[k].guid] # ranged'[k].distance]_vars

\* what the code keeps of the entities, without the count of destroy calls
Kept(es) == [i \in 1..Len(es) |-> [es[i] EXCEPT !.destroyed = 0]]

\* the step handles the arrival of a player
HandlesEnter ==
    /\ did'.thread = "main"
    /\ did'.op.name = "_handle_event"
    /\ Head(inQ).channel = "global::enter"

\* C16: a player who enters while the despawn timer is armed cancels it and
\* every entity stays as it was; and however the timer thread and the main
\* loop interleave, no entity is destroyed and the worker does not terminate
\* while a player is tracked.
C16_EnterCancelsDespawn ==
    [][/\ (HandlesEnter /\ ttl # 0 /\ timers[ttl].st = "waiting") =>
            /\ timers'[ttl].st = "cancelled"
            /\ Kept(entities') = Kept(entities)
            /\ \A i \in 1..Len(entities') : entities'[i].destroyed = 0
       /\ (did'.thread = "timer" /\ did'.op.name \in {"destroy", "terminate"}) =>
            DOMAIN players = {}]_vars

Waiting == {t \in 1..Len(timers) : timers[t].st = "waiting"}

Cancelled == {t \in 1..Len(timers) : timers[t].st = "cancelled"}

AllDestroyed == \A i \in 1..Len(entities) : entities[i].destroyed >= 1

\* C17: when the last tracked player has left and no player enters while
\* the despawn timer waits, the worker destroys every entity and terminates
\* in the end; a timer is armed only by a leave that empties the player
\* set, so never more than one timer is waiting to fire.
C17_DespawnAfterLastLeave ==
    /\ [](Cardinality(Waiting) <= 1)
    /\ [][Len(timers') > Len(timers) =>
             /\ did'.thread = "main"
             /\ did'.op.name = "_handle_event"
             /\ Head(inQ).data.tag = "del"
             /\ DOMAIN players # {}
             /\ DOMAIN players' = {}
             /\ ttl' = Len(timers')
             /\ timers'[ttl'].st = "waiting"]_vars
    /\ (Waiting # {}) ~>
           \/ ttl \in Cancelled
           \/ wstate = "terminated" /\ AllDestroyed

\* the worker has gone after its last player left: both entities were
\* destroyed and no player came back
C17_Witness ==
    /\ wstate = "terminated"
    /\ Len(entities) = 2
    /\ AllDestroyed
    /\ DOMAIN players = {}
    /\ Len(timers) = 1

\* a step of the main loop, told by what it does to the inbound queue and
\* to the place the loop is at: MainDrain, MainEntities, MainPlayers or
\* MainFlush, of which one is enabled wherever the loop is
LoopStep ==
    /\ wstate = "running"
    /\ \/ wpc = "drain" /\ inQ # <<>> /\ inQ' = Tail(inQ)
       \/ wpc = "drain" /\ inQ = <<>> /\ wpc' = "players"
       \/ wpc = "players" /\ wpc' = "flush"
       \/ wpc = "flush" /\ wpc' = "drain"

\* the main loop is not held up for ever either: WF_vars(LoopStep) with
\* ENABLED <<LoopStep>>_vars written out, which is that the worker runs
SpecWorkerLive ==
    /\ SpecWorkerFair
    /\ ([]<>(wstate # "running") \/ []<><<LoopStep>>_vars)

MainDid(name) == did'.thread = "main" /\ did'.op.name = name

\* C18: what the reader thread enqueued is handled by the main loop once
\* each and in the order of arrival, and is handled in the end while the
\* worker runs; in a loop iteration events are dispatched first, until the
\* queue is found empty, then the entities fire, then the players are
\* dead-reckoned, then the outbound messages are flushed.
C18_HandledOnceInOrder ==
    /\ [](arrived = handled \o inQ)
    /\ [][/\ MainDid("_handle_event") =>
                 (/\ wpc = "drain" /\ wpc' = "drain"
                  /\ inQ # <<>>
                  /\ handled' = Append(handled, Head(inQ)))
          /\ MainDid("fire_events") =>
                 (/\ wpc = "drain" /\ wpc' = "players"
                  /\ inQ = <<>>)
          /\ MainDid("on_tick") => (wpc = "players" /\ wpc' = "flush")
          /\ MainDid("flush") => (wpc = "flush" /\ wpc' = "drain")
          /\ handled' # handled => MainDid("_handle_event")
          /\ wpc' # wpc => did'.thread = "main"]_vars
    /\ (inQ # <<>>) ~> (inQ = <<>> \/ wstate # "running")

\* three different events came in while the loop was at work and all were
\* handled, in the order they came in
C18_Witness ==
    /\ Len(handled) = 3
    /\ handled = arrived
    /\ handled[1] # handled[2]
    /\ handled[2] # handled[3]
    /\ published # <<>>
    /\ wpc = "flush"

\* C19: the messages queued by notify_location are published in the order
\* they were queued, all that wait are published by the flush that ends the
\* loop iteration, and none is left unpublished when the worker has ended,
\* those of the entities destroyed at despawn included.
C19_OutboundAllPublished ==
    /\ [](produced = published \o outQ)
    /\ [][MainDid("flush") =>
              (outQ' = <<>> /\ published' = published \o outQ)]_vars
    /\ [](wstate = "terminated" => outQ = <<>>)

\* C20: the reader thread only enqueues what it received, and the entity
\* list, the player map and the schedule queue and remembered distances of
\* every entity change in steps of the main loop only.
C20_OnlyMainLoopMutates ==
    [][/\ did'.thread = "reader" =>
              (/\ inQ' = Append(inQ, arrived'[Len(arrived')])
               /\ UNCHANGED <<entities, players, ttl, timers, outQ>>)
       /\ (Kept(entities') # Kept(entities) \/ players' # players) =>
              did'.thread = "main"]_vars

-----------------------------------------------------------------------------
(* internals/entities/sentient.py: the direction a SentientAnimat picks    *)

\* entities.py: DIRECTIONS
DIRECTIONS ==
    << <<1, 0>>, <<1, 1>>, <<0, 1>>, <<-1, 1>>, <<-1, 0>>, <<-1, -1>>,
       <<0, -1>>, <<1, -1>> >>

CONVERTED_DIRECTIONS(angle) ==
    CASE angle = 0 -> <<1, 0>>
      [] angle = 45 -> <<1, -1>>
      [] angle = 90 -> <<0, -1>>
      [] angle = 135 -> <<-1, -1>>
      [] angle = 180 -> <<-1, 0>>
      [] angle = 225 -> <<-1, 1>>
      [] angle = 270 -> <<0, 1>>
      [] angle = 315 -> <<1, 1>>

\* SentientAnimat._flee_or_chase
_flee_or_chase(s) ==
    IF s.fleeing # {} /\ s.chasing # NONE
    THEN IF s.prefer_behavior = FLEE THEN FLEE ELSE CHASE
    ELSE IF s.fleeing # {} THEN FLEE
    ELSE IF s.chasing # NONE THEN CHASE
    ELSE NoBehavior

\* the square of the sine of 22, 23, 67 and 68 degrees, in thousandths
Sin2(deg) ==
    CASE deg = 22 -> 140
      [] deg = 23 -> 153
      [] deg = 67 -> 847
      [] deg = 68 -> 860

\* asin(dy / hypot(dx, dy)) is at least deg degrees; (dx, dy) is not (0, 0)
AsinAtLeast(dx, dy, deg) ==
    LET h2 == dx * dx + dy * dy
    IN IF deg > 0
       THEN dy > 0 /\ dy * dy * 1000 >= Sin2(deg) * h2
       ELSE dy >= 0 \/ dy * dy * 1000 <= Sin2(0 - deg) * h2

\* get_angle of _get_best_direction: theta = asin(pre_trig) in degrees,
\* theta += 22, theta -= theta % 45, theta % 360
get_angle(x, y, e_x, e_y) ==
    LET dx == x - e_x
        dy == y - e_y
    IN IF AsinAtLeast(dx, dy, 68) THEN 90
       ELSE IF AsinAtLeast(dx, dy, 23) THEN 45
       ELSE IF AsinAtLeast(dx, dy, -22) THEN 0
       ELSE IF AsinAtLeast(dx, dy, -67) THEN 315
       ELSE 270

\* alternate_angles of _get_best_direction
alternate_angles(angle) ==
    << (angle + 45) % 360, (angle + 315) % 360,
       (angle + 90) % 360, (angle + 270) % 360,
       (angle + 135) % 360, (angle + 225) % 360,
       (angle + 180) % 360, (angle + 180) % 360 >>

Usable(d, usable_directions) ==
    \E i \in 1..Len(usable_directions) : usable_directions[i] = d

\* the first of the angles whose direction can be used
RECURSIVE FirstUsable(_, _)
FirstUsable(angles, usable_directions) ==
    IF angles = <<>> THEN NONE
    ELSE IF Usable(CONVERTED_DIRECTIONS(Head(angles)), usable_directions)
    THEN CONVERTED_DIRECTIONS(Head(angles))
    ELSE FirstUsable(Tail(angles), usable_directions)

RECURSIVE SumOf(_, _, _)
SumOf(w, gs, k) ==
    IF gs = {} THEN 0
    ELSE LET g == CHOOSE g \in gs : TRUE
         IN w[g][k] + SumOf(w, gs \ {g}, k)

\* the point to flee from: lines 230-245
flee_position(s, w) ==
    LET num_fe == Cardinality(s.fleeing)
    IN IF num_fe > 1
       THEN <<SumOf(w, s.fleeing, 1) \div num_fe,
              SumOf(w, s.fleeing, 2) \div num_fe>>
       ELSE w[CHOOSE g \in s.fleeing : TRUE]

\* SentientAnimat._get_best_direction, and Animat._get_best_direction where
\* it delegates; usable_directions is what get_movable_directions returns
\* and pick what random.choice picks.  The result is kept with the call.
_get_best_direction(s, w, usable_directions, weighted, pick) ==
    LET behavior == _flee_or_chase(s)
        call == [NoBest EXCEPT !.called = TRUE, !.weighted = weighted,
                               !.usable = usable_directions,
                               !.behavior = behavior]
        target == IF behavior = FLEE THEN flee_position(s, w)
                  ELSE w[s.chasing]
        toward == get_angle(s.position[1], s.position[2], target[1], target[2])
        angle == IF behavior = FLEE THEN (toward + 180) % 360 ELSE toward
    IN IF usable_directions = <<>> THEN call
       ELSE IF Len(usable_directions) = 1
       THEN [call EXCEPT !.dir = usable_directions[1]]
       ELSE IF behavior = NoBehavior \/ ~weighted
       THEN [call EXCEPT !.dir = pick]
       ELSE IF target = s.position
       THEN [call EXCEPT !.flee_position = target, !.raised = TRUE]
       ELSE [call EXCEPT !.flee_position = target,
                         !.angle = angle,
                         !.dir = FirstUsable(<<angle>> \o alternate_angles(angle),
                                             usable_directions)]

\* where a player can stand: left of, right of, above and on the entity,
\* and off the eight compass directions
Spots == {<<400, 500>>, <<600, 500>>, <<500, 400>>, <<600, 450>>, <<500, 500>>}

\* what get_movable_directions may return
UsableChoices ==
    {<<>>, << <<1, 0>> >>, << <<1, 0>>, <<0, 1>> >>, DIRECTIONS,
     << <<1, 0>>, <<1, 1>>, <<0, 1>>, <<-1, 1>>, <<-1, -1>>, <<0, -1>>,
        <<1, -1>> >>}

SentFrame == <<sessionVars, processVars, traceVars, cycleVars, schedVars,
               animatVars, workerVars, levelVars, visits>>

\* what flee, stop_fleeing, chase and forget, and the preference of the
\* entity's class, have left in the entity
SentArrange ==
    \E f \in SUBSET Guids, c \in Guids \cup {NONE}, pb \in {FLEE, CHASE} :
        /\ sentient' = [sentient EXCEPT !.fleeing = f, !.chasing = c,
                                        !.prefer_behavior = pb]
        /\ best' = NoBest
        /\ UNCHANGED <<SentFrame, where>>

\* a player of the location is somewhere else now
SentPlace ==
    \E g \in Guids, spot \in Spots :
        /\ where' = [where EXCEPT ![g] = spot]
        /\ best' = NoBest
        /\ UNCHANGED <<SentFrame, sentient>>

\* _behavior_changed or _reevaluate_behavior asks for the best direction
SentBestDirection ==
    \E usable_directions \in UsableChoices, weighted \in BOOLEAN :
        \E k \in 1..(IF usable_directions = <<>> THEN 1
                     ELSE Len(usable_directions)) :
            /\ best' = _get_best_direction(
                           sentient, where, usable_directions, weighted,
                           IF usable_directions = <<>> THEN NONE
                           ELSE usable_directions[k])
            /\ UNCHANGED <<SentFrame, sentient, where>>

SentNext ==
    \/ SentArrange
    \/ SentPlace
    \/ SentBestDirection

SpecSentient == Init /\ [][SentNext]_vars

\* the point the entity is afraid of, worked out from where the players are
FearedSpot ==
    IF sentient.fleeing = Guids
    THEN <<(where["p1"][1] + where["p2"][1]) \div 2,
           (where["p1"][2] + where["p2"][2]) \div 2>>
    ELSE where[CHOOSE g \in sentient.fleeing : TRUE]

\* d points into the half plane that lies away from the spot
PointsAway(d, spot) ==
    d[1] * (spot[1] - sentient.position[1])
        + d[2] * (spot[2] - sentient.position[2]) < 0

\* C15: a SentientAnimat with the default preference that flees from a guid
\* and chases a guid has _flee_or_chase return FLEE, and its weighted best
\* direction is worked out from the feared position and points away from
\* it, wherever the chased guid is.
C15_FleeBeatsChase ==
    (/\ best.called
     /\ sentient.fleeing # {}
     /\ sentient.chasing # NONE
     /\ sentient.chasing \notin sentient.fleeing
     /\ sentient.prefer_behavior = FLEE) =>
        /\ best.behavior = FLEE
        /\ (best.weighted /\ Len(best.usable) >= 2
                /\ FearedSpot # sentient.position) =>
               /\ ~best.raised
               /\ best.flee_position = FearedSpot
               /\ PointsAway(CONVERTED_DIRECTIONS(best.angle), FearedSpot)

\* C12: after move(v) with a non-zero v followed by move(0,0), whatever the
\* Animat was doing before (wandering included), its schedule queue holds
\* no pending firing and has_work() is false.
C12_StopLeavesNothingPending ==
    [][(/\ calls.op = "move"
        /\ calls.v # <<0, 0>>
        /\ calls'.op = "move"
        /\ calls'.v = <<0, 0>>) =>
            /\ schedule_queue' = <<>>
            /\ ~has_work(animat')]_vars

-----------------------------------------------------------------------------
(* The shared cache and the member lists under two sessions that register, *)
(* change level, move and disconnect                                       *)

CacheGuids == {"a", "b"}

CacheLevs == {LevPayload("addr", "", Origin), LevPayload("sub", "b1", NoLocation),
              LevPayload("up", "", NoLocation)}

CacheReg(s) ==
    \E data \in CacheGuids :
        /\ location[s] # NoLocation => location[s].x > -MaxSlide
        /\ MembersBounded
        /\ Handle(s, "reg", data)

CacheLev(s) ==
    \E data \in CacheLevs :
        /\ data.kind = "sub" => Len(parent_positions[s]) < MaxDepth
        /\ MembersBounded
        /\ Handle(s, "lev", data)

CacheLoc(s) == Handle(s, "loc", LocPayload(100, 200, 2, 0))

CacheNext ==
    \E s \in Sessions :
        \/ Open(s)
        \/ OnClose(s)
        \/ CacheReg(s)
        \/ CacheLev(s)
        \/ CacheLoc(s)

SpecCache == Init /\ [][CacheNext]_vars

\* the session is connected: open() has run and on_close() has not
Live(s) == conn[s] \in {"open", "aborted"}

\* the session is in the process-wide member list of the location
RegisteredIn(s, loc) == loc \in DOMAIN locations /\ InSeq(locations[loc], s)

\* C21: a guid g is a member of the cache set l:c:<L> if and only if a live
\* session whose guid is g is registered in location L, and the key l:p:<g>
\* exists only while such a session is live; a guid that a session replaced
\* by a later reg leaves no entry behind.
C21_CacheMirrorsSessions ==
    /\ \A m \in cacheMembers :
           \E s \in Sessions : Live(s) /\ guid[s] = m[2] /\ RegisteredIn(s, m[1])
    /\ \A s \in Sessions : \A loc \in DOMAIN locations :
           (Live(s) /\ RegisteredIn(s, loc)) => <<loc, guid[s]>> \in cacheMembers
    /\ \A g \in DOMAIN cachePos :
           \E s \in Sessions : Live(s) /\ guid[s] = g /\ location[s] # NoLocation

\* a second reg with another guid has left the first guid in the cache
C21_StaleGuid ==
    /\ req.tag = "reg"
    /\ guid[req.s] = "b"
    /\ \E m \in cacheMembers :
           m[2] = "a" /\ \A s \in Sessions : guid[s] # "a"
    /\ "a" \in DOMAIN cachePos

\* how often the session occurs in the member list
Occurrences(seq, s) == Cardinality({i \in 1..Len(seq) : seq[i] = s})

\* C22: a session appears in the member lists of at most one location, which
\* is its current location, and there exactly once; after on_close it is in
\* no member list and not in the list of open connections.
C22_OneMemberListEntry ==
    /\ \A s \in Sessions : \A loc \in DOMAIN locations :
           InSeq(locations[loc], s) =>
               /\ loc = location[s]
               /\ Occurrences(locations[loc], s) = 1
    /\ \A s \in Sessions :
           conn[s] = "closed" =>
               /\ \A loc \in DOMAIN locations : ~InSeq(locations[loc], s)
               /\ ~InSeq(connections, s)

\* a closed session that had registered with a non-empty guid is still listed
C22_ClosedStillListed ==
    \E s \in Sessions :
        /\ conn[s] = "closed"
        /\ Truthy(guid[s])
        /\ \E loc \in DOMAIN locations : InSeq(locations[loc], s)

-----------------------------------------------------------------------------
(* levelbuilder/towns.py: smooth_roads on small grids of road and other    *)
(* tiles                                                                   *)

ROAD_MATERIAL == 81

ROAD_MAJOR_TILES ==
    (<<1, 1, 1, 1>> :> 81) @@ (<<1, 1, 0, 0>> :> 85) @@ (<<1, 0, 0, 1>> :> 87) @@
    (<<0, 1, 1, 0>> :> 75) @@ (<<0, 0, 1, 1>> :> 77) @@ (<<1, 1, 0, 1>> :> 86) @@
    (<<0, 1, 1, 1>> :> 76) @@ (<<1, 0, 1, 1>> :> 82) @@ (<<1, 1, 1, 0>> :> 80)

ROAD_MINOR_TILES ==
    (<<0, 1, 1, 1>> :> 78) @@ (<<1, 0, 1, 1>> :> 79) @@
    (<<1, 1, 0, 1>> :> 83) @@ (<<1, 1, 1, 0>> :> 84)

\* int(is_road(x))
is_road(x) == IF x = ROAD_MATERIAL THEN 1 ELSE 0

\* the lookup of a signature that ROAD_MINOR_TILES does not hold
KeyError == -1

\* what the body of the loops assigns to grid[row][col] (rows and columns
\* count from 1 here), the tile itself where it `continue`s
SmoothedTile(ogrid, row, col) ==
    IF is_road(ogrid[row][col]) = 0 THEN ogrid[row][col]
    ELSE
      LET major_signature == <<is_road(ogrid[row - 1][col]),
                               is_road(ogrid[row][col + 1]),
                               is_road(ogrid[row + 1][col]),
                               is_road(ogrid[row][col - 1])>>
          minor_signature == <<is_road(ogrid[row - 1][col - 1]),
                               is_road(ogrid[row - 1][col + 1]),
                               is_road(ogrid[row + 1][col - 1]),
                               is_road(ogrid[row + 1][col + 1])>>
      IN IF major_signature \notin DOMAIN ROAD_MAJOR_TILES THEN ogrid[row][col]
         ELSE IF ROAD_MAJOR_TILES[major_signature] # ROAD_MATERIAL
         THEN ROAD_MAJOR_TILES[major_signature]
         ELSE IF minor_signature = <<1, 1, 1, 1>> THEN ogrid[row][col]
         ELSE IF minor_signature \in DOMAIN ROAD_MINOR_TILES
         THEN ROAD_MINOR_TILES[minor_signature]
         ELSE KeyError

\* the cells the two loops visit: range(1, len - 1) of rows and of columns
Visited(grid) ==
    {rc \in (2..(Len(grid) - 1)) \X (2..(Len(grid[1]) - 1)) : TRUE}

\* row-major order of the visits
VisitedBefore(a, b) == a[1] < b[1] \/ (a[1] = b[1] /\ a[2] < b[2])

\* smooth_roads(grid): the grid it leaves, and whether it raised; the cells
\* visited before the raising one are already written
smooth_roads(grid) ==
    LET failing == {rc \in Visited(grid) :
                        SmoothedTile(grid, rc[1], rc[2]) = KeyError}
        done(rc) == /\ rc \in Visited(grid)
                    /\ \A f \in failing : VisitedBefore(rc, f)
    IN [grid |-> [row \in 1..Len(grid) |->
                    [col \in 1..Len(grid[row]) |->
                        IF done(<<row, col>>)
                        THEN SmoothedTile(grid, row, col)
                        ELSE grid[row][col]]],
        raised |-> failing # {}]

RoadRows == 4
RoadCols == 4
MaxSmooth == 2

Grids == [1..RoadRows -> [1..RoadCols -> {0, ROAD_MATERIAL}]]

\* a caller hands a grid over
RoadsGiven ==
    /\ roads.applied = -1
    /\ \E g \in Grids :
           roads' = [applied |-> 0, grid |-> g, given |-> g, before |-> g,
                     raised |-> FALSE]
    /\ UNCHANGED <<sessionVars, processVars, traceVars, cycleVars, schedVars,
                   animatVars, workerVars, sentVars, town, visits>>

\* smooth_roads runs on the grid the previous run left
RoadsSmoothed ==
    /\ roads.applied \in 0..(MaxSmooth - 1)
    /\ ~roads.raised
    /\ LET r == smooth_roads(roads.grid)
       IN roads' = [roads EXCEPT !.applied = @ + 1, !.grid = r.grid,
                                 !.before = roads.grid, !.raised = r.raised]
    /\ UNCHANGED <<sessionVars, processVars, traceVars, cycleVars, schedVars,
                   animatVars, workerVars, sentVars, town, visits>>

RoadsNext == RoadsGiven \/ RoadsSmoothed

SpecRoads == Init /\ [][RoadsNext]_vars

\* the road tiles of the given grid whose eight neighbours are road
Enclosed ==
    {rc \in Visited(roads.given) :
        \A dr \in {-1, 0, 1}, dc \in {-1, 0, 1} :
            roads.given[rc[1] + dr][rc[2] + dc] = ROAD_MATERIAL}

\* C24: smooth_roads is idempotent: on every grid g of tile ids a second
\* application returns what the first returned; and a road tile whose four
\* orthogonal and four diagonal neighbours are road keeps tile id 81.
C24_SmoothRoadsIdempotent ==
    /\ roads.applied >= 1 => ~roads.raised
    /\ roads.applied = 1 =>
           \A rc \in Enclosed : roads.grid[rc[1]][rc[2]] = ROAD_MATERIAL
    /\ roads.applied = 2 => roads.grid = roads.before

\* the part of C24 about an enclosed road tile, on the grids smooth_roads
\* returns from
C24_EnclosedKeeps81 ==
    (roads.applied = 1 /\ ~roads.raised) =>
        \A rc \in Enclosed : roads.grid[rc[1]][rc[2]] = ROAD_MATERIAL

\* a second application changed a tile although neither application raised
C24_SecondPassChanges ==
    /\ roads.applied = 2
    /\ ~roads.raised
    /\ roads.grid # roads.before

-----------------------------------------------------------------------------
(* levelbuilder/towns.py: build_town, two calls with equal arguments in    *)
(* one process                                                             *)

BUILDINGS == <<"plaza", "well", "church", "clock", "library", "graveyard",
               "shop", "house">>
TOWN_CENTERS == <<"plaza", "well">>
REPEATABLE_BUILDINGS == {"shop", "house"}
ROAD_WIDTH == 4

\* get_building_tiles(name): the footprint (width, height) of the template
BUILDING_ENTITIES ==
    [b \in {BUILDINGS[i] : i \in 1..Len(BUILDINGS)} |->
        CASE b = "plaza" -> <<8, 8>>
          [] b = "well" -> <<4, 4>>
          [] b = "church" -> <<8, 10>>
          [] b = "clock" -> <<4, 6>>
          [] b = "library" -> <<8, 6>>
          [] b = "graveyard" -> <<10, 8>>
          [] b = "shop" -> <<6, 6>>
          [] OTHER -> <<6, 5>>]

\* The generator of the random module is one per process; build_town draws
\* from it and never seeds it.  It is modelled by a generator of RngStates
\* states with a full period.
RngStates == 16

RngNext(r) == (5 * r + 3) % RngStates

\* random.choice(seq)
Choice(r, seq) == seq[(r % Len(seq)) + 1]

\* random.randint(a, b)
Randint(r, a, b) == a + (r % (b - a + 1))

\* list.remove(x)
Remove(seq, x) == RemoveFirst(seq, x)

Min(a, b) == IF a < b THEN a ELSE b
Max(a, b) == IF a > b THEN a ELSE b

\* the first statement of the body of `for direction in range(4)`, and the
\* resets before the placing loop
StartDirection(t, direction) ==
    LET ob == t.old_boundaries
        xy == CASE direction = 0 -> <<ob[2] + ROAD_WIDTH, ob[1]>>
                [] direction = 1 -> <<ob[2], ob[3]>>
                [] direction = 2 -> <<ob[4] - ROAD_WIDTH, ob[3]>>
                [] OTHER -> <<ob[4], ob[1] - ROAD_WIDTH>>
    IN [t EXCEPT !.direction = direction, !.x = xy[1], !.y = xy[2],
                 !.widest_building = 0, !.building_w = 0, !.building_h = 0,
                 !.phase = "placing"]

\* the test of the outer while, and what follows it
WhileTest(t) ==
    IF (\A i \in 1..4 : 10 < t.town_boundaries[i] /\ t.town_boundaries[i] < 90)
       /\ t.building_count <= t.building_limit
    THEN StartDirection([t EXCEPT !.iteration = @ + 1,
                                  !.old_boundaries = t.town_boundaries], 0)
    ELSE [t EXCEPT !.phase = "smoothing"]

\* build_town up to the outer while, for the centre and the building budget
\* that were drawn: the centre is stamped and leaves the pool
build_town_drawn(center, building_limit, seed) ==
    LET center_entity == BUILDING_ENTITIES[center]
        center_x == (level_width \div 2) - (center_entity[1] \div 2)
        center_y == (level_height \div 2) - (center_entity[2] \div 2)
        t == [seed |-> seed, center |-> center,
              available_buildings |-> Remove(BUILDINGS, center),
              town_boundaries |-> <<center_y, center_x + center_entity[1],
                                    center_y + center_entity[2] + ROAD_WIDTH,
                                    center_x>>,
              old_boundaries |-> <<0, 0, 0, 0>>,
              overlays |-> <<<<center, center_x, center_y>>>>,
              fills |-> <<>>,
              building_limit |-> building_limit, building_count |-> 0,
              iteration |-> 0, direction |-> 0, x |-> 0, y |-> 0,
              widest_building |-> 0, building_w |-> 0, building_h |-> 0,
              phase |-> "placing"]
    IN WhileTest(t)

\* build_town up to the outer while: the centre and the building budget are
\* drawn from the generator
build_town_begin(r, seed) ==
    LET r1 == RngNext(r)
    IN [rng |-> RngNext(r1),
        t |-> build_town_drawn(Choice(r, TOWN_CENTERS), Randint(r1, 6, 15),
                               seed)]

\* border_conds[direction]()
border_conds(t) ==
    CASE t.direction = 0 -> t.y > t.old_boundaries[3]
      [] t.direction = 1 -> t.x < t.old_boundaries[4]
      [] t.direction = 2 -> t.y < t.old_boundaries[1]
      [] OTHER -> t.x > t.town_boundaries[2]

\* fill_road(grid, x, y, w, h), as the call it is
fill_road(t, x, y, w, h) == [t EXCEPT !.fills = Append(@, <<x, y, w, h>>)]

\* a pass that takes every building drawn out of the pool
place_building_once(r, t) ==
    LET building == Choice(r, t.available_buildings)
        building_w == BUILDING_ENTITIES[building][1]
        building_h == BUILDING_ENTITIES[building][2]
        d == t.direction
        along == IF d \in {0, 2} THEN building_w ELSE building_h
    IN [t EXCEPT
          !.available_buildings = Remove(@, building),
          !.building_w = building_w,
          !.building_h = building_h,
          !.x = CASE d = 1 -> @ - building_w [] d = 3 -> @ + building_w
                  [] OTHER -> @,
          !.y = CASE d = 0 -> @ + building_h [] d = 2 -> @ - building_h
                  [] OTHER -> @,
          !.widest_building = IF along > @ THEN along ELSE @,
          !.building_count = @ + 1]

\* one pass of the body of `while not border_conds[direction]()`
place_building(r, t) ==
    LET building == Choice(r, t.available_buildings)
        building_w == BUILDING_ENTITIES[building][1]
        building_h == BUILDING_ENTITIES[building][2]
        d == t.direction
        offset_x == IF d \in {1, 2} THEN -building_w ELSE 0
        offset_y == IF d \in {2, 3} THEN -building_h ELSE 0
        along == IF d \in {0, 2} THEN building_w ELSE building_h
    IN [t EXCEPT
          !.available_buildings =
              IF building \in REPEATABLE_BUILDINGS THEN @ ELSE Remove(@, building),
          !.building_w = building_w,
          !.building_h = building_h,
          !.overlays = Append(@, <<building, t.x + offset_x, t.y + offset_y>>),
          !.x = CASE d = 1 -> @ - building_w [] d = 3 -> @ + building_w
                  [] OTHER -> @,
          !.y = CASE d = 0 -> @ + building_h [] d = 2 -> @ - building_h
                  [] OTHER -> @,
          !.widest_building = IF along > @ THEN along ELSE @,
          !.building_count = @ + 1]

\* the rest of the body of the for loop once the border is passed: the
\* roads, the new boundaries, the break, the next direction or the next test
\* of the outer while
end_direction(t) ==
    LET ob == t.old_boundaries
        tb == t.town_boundaries
        x == t.x
        y == t.y
        wb == t.widest_building
        t1 ==
          CASE t.direction = 0 ->
                 [fill_road(t, ob[2], ob[1], ROAD_WIDTH, y - ob[1]) EXCEPT
                    !.town_boundaries = <<tb[1], x + wb, Min(y, tb[3]), tb[4]>>]
            [] t.direction = 1 ->
                 LET first == IF t.iteration = 1
                              THEN fill_road(t, x - t.building_w,
                                       ob[3] - ROAD_WIDTH,
                                       Max(ob[2] - x + t.building_w,
                                           BUILDING_ENTITIES[t.center][1]
                                               + ROAD_WIDTH),
                                       ROAD_WIDTH)
                              ELSE t
                     second == fill_road(first, x - t.building_w, y + wb,
                                         ob[2] - x + t.building_w, ROAD_WIDTH)
                     bottom == y + wb + ROAD_WIDTH
                 IN [fill_road(second, ob[2], ob[3], ROAD_WIDTH, bottom - ob[3])
                       EXCEPT !.town_boundaries =
                                  <<tb[1], tb[2], bottom, Min(x, tb[4])>>]
            [] t.direction = 2 ->
                 [fill_road(t, x, Min(y, ob[1]), ROAD_WIDTH,
                            Max(ob[3] - y, ob[3] - ob[1])) EXCEPT
                    !.town_boundaries = <<Max(y, tb[1]), tb[2], tb[3], x - wb>>]
            [] OTHER ->
                 [fill_road(t, ob[4], y, Max(x - ob[4], tb[2] - ob[4]),
                            ROAD_WIDTH) EXCEPT
                    !.town_boundaries = <<y - wb, Max(x, tb[2]), tb[3], tb[4]>>]
    IN IF t1.building_count > t1.building_limit \/ t1.direction = 3
       THEN WhileTest(t1)
       ELSE StartDirection(t1, t1.direction + 1)

\* what build_town returns, as the overlay and fill_road calls that made it
Returned(t) == [overlays |-> t.overlays, fills |-> t.fills]

TownFrame == <<sessionVars, processVars, traceVars, cycleVars, schedVars,
               animatVars, workerVars, sentVars, roads, visits>>

Seeds == {0, 1}

\* the process calls build_town(grid, hitmap, seed) on a blank grid
TownBegin ==
    /\ town.phase = "none"
    /\ \E r \in 0..(RngStates - 1), seed \in Seeds :
           LET b == build_town_begin(r, seed)
           IN town' = [phase |-> "first", rng |-> b.rng, seed |-> seed,
                       t |-> b.t, first |-> <<>>]
    /\ UNCHANGED TownFrame

\* ... and later again with the same arguments
TownAgain ==
    /\ town.phase = "between"
    /\ LET b == build_town_begin(town.rng, town.seed)
       IN town' = [town EXCEPT !.phase = "second", !.rng = b.rng, !.t = b.t]
    /\ UNCHANGED TownFrame

TownPlace ==
    /\ town.phase \in {"first", "second"}
    /\ town.t.phase = "placing"
    /\ ~border_conds(town.t)
    /\ town' = [town EXCEPT !.t = place_building(town.rng, town.t),
                            !.rng = RngNext(town.rng)]
    /\ UNCHANGED TownFrame

TownTurn ==
    /\ town.phase \in {"first", "second"}
    /\ town.t.phase = "placing"
    /\ border_conds(town.t)
    /\ town' = [town EXCEPT !.t = end_direction(town.t)]
    /\ UNCHANGED TownFrame

\* smooth_roads(grid); return grid, hitmap, portals
TownReturn ==
    /\ town.phase \in {"first", "second"}
    /\ town.t.phase = "smoothing"
    /\ town' = IF town.phase = "first"
               THEN [town EXCEPT !.phase = "between", !.first = Returned(town.t),
                                 !.t.phase = "returned"]
               ELSE [town EXCEPT !.phase = "both", !.t.phase = "returned"]
    /\ UNCHANGED TownFrame

TownNext == TownBegin \/ TownAgain \/ TownPlace \/ TownTurn \/ TownReturn

SpecTown == Init /\ [][TownNext]_vars

\* C23: two runs of build_town on equal grid and hitmap with the same seed
\* argument return the same grid, hitmap and portal list.
C23_SameSeedSameTown ==
    town.phase = "both" => Returned(town.t) = town.first

\* the two runs stamped different centre buildings
C23_CentresDiffer ==
    /\ town.phase = "both"
    /\ town.first.overlays[1][1] # town.t.overlays[1][1]

-----------------------------------------------------------------------------
(* The worker under events whose subject is not a player of the location:  *)
(* del and cha messages about entity ids                                   *)

ChaEvent(g) ==
    [type |-> "message", channel |-> "location::p",
     data |-> [tag |-> "cha", guid |-> g]]

\* an id as Entity.__init__ generates it, and one that begins with "@"
SystemIds == {EntityId(1), "@x"}

ChatterEvents ==
    IF arrived = <<>> THEN {Subscribed}
    ELSE {DelEvent(id) : id \in SystemIds}
             \cup {ChaEvent(id) : id \in SystemIds \cup InLocation(arrived)}
             \cup {DelEvent(g) : g \in InLocation(arrived)}

ReaderEnqueueAny == \E ev \in ChatterEvents : Enqueue(ev)

ChatterNext ==
    \/ WorkerStart
    \/ ReaderEnqueueAny
    \/ MainDrain
    \/ MainEntities
    \/ MainPlayers
    \/ MainFlush
    \/ TimerFire
    \/ TimerDestroy
    \/ TimerTerminate
    \/ WorkerTick

SpecChatter == Init /\ [][ChatterNext]_vars

\* the step runs _handle_event on a del or cha message about an entity id
HandlesEntityChatter ==
    /\ did'.thread = "main"
    /\ did'.op.name = "_handle_event"
    /\ Head(inQ).type = "message"
    /\ Head(inQ).data.tag \in {"del", "cha"}
    /\ startswith(Head(inQ).data.guid, get_prefix)

\* C25: in _handle_event a del or cha message whose subject guid is an
\* entity id (it carries the prefix Entity assigns to generated ids) is
\* ignored: no on_leave handling, no entity's handle_message is called.
C25_EntityChatterIgnored ==
    [][HandlesEntityChatter =>
          /\ did'.op.left = <<>>
          /\ did'.op.heard = <<>>
          /\ wstate' = wstate]_vars

\* what the filter does drop: del and cha messages whose subject begins
\* with "@"
C25_AtChatterIgnored ==
    [][(/\ did'.thread = "main"
        /\ did'.op.name = "_handle_event"
        /\ Head(inQ).type = "message"
        /\ Head(inQ).data.tag \in {"del", "cha"}
        /\ startswith(Head(inQ).data.guid, "@")) =>
          /\ did'.op.left = <<>>
          /\ did'.op.heard = <<>>
          /\ wstate' = wstate]_vars

-----------------------------------------------------------------------------
(* internals/entities/sentient.py: the methods of SentientAnimat, on the   *)
(* state of one entity: its queue (q, clock, nextId, alive, fired), its    *)
(* Animat attributes (a), its SentientAnimat attributes (s), the players   *)
(* of its location (pl) with their positions (w), and what the run emitted *)
(* (atk), asked (best), returned (rets) and whether it raised              *)

FLEE_DISTANCE == 15
HURT_DISTANCE == 1

\* REEVALUATE_TIME + randint(5, 7) / 11: 0.675 s, the quotient of the
\* integers being 0; on the quarter-second clock the callback is due with the
\* third quarter
REEVALUATE_TIME == 3

\* the direction of an entity that is told not to move
Stay == <<0, 0>>

\* time.time() when the process started, in quarters: long after 0
Epoch == 8

\* time.time()
Now(b) == Epoch + b.clock

\* positions of location.entities + location.players.values(), by id
PositionsOf(b) ==
    [g \in DOMAIN b.pl \cup {b.s.id} |->
        IF g = b.s.id THEN b.s.position ELSE b.w[g]]

\* self._get_best_direction(weighted): the call with its result; a guid
\* that is neither a player nor an entity of the location has no position
BestDirection(b, weighted, ch) ==
    LET behavior == _flee_or_chase(b.s)
        needed == IF ~weighted \/ Len(ch.usable) < 2 THEN {}
                  ELSE IF behavior = FLEE THEN b.s.fleeing
                  ELSE IF behavior = CHASE THEN {b.s.chasing}
                  ELSE {}
        lost == IF behavior = FLEE /\ Cardinality(b.s.fleeing) > 1
                THEN {g \in needed : FALSE}
                ELSE needed \ DOMAIN PositionsOf(b)
        known == [g \in Guids \cup {b.s.id} |->
                     IF g \in DOMAIN PositionsOf(b) THEN PositionsOf(b)[g]
                     ELSE b.s.position]
    IN IF lost # {}
       THEN [NoBest EXCEPT !.called = TRUE, !.weighted = weighted,
                           !.usable = ch.usable, !.behavior = behavior,
                           !.raised = TRUE]
       ELSE _get_best_direction(b.s, known, ch.usable, weighted, ch.pick)

\* an attack that does not look at the time of the last one
attack_without_cooldown(b, g) ==
    [b EXCEPT !.s.last_attack = Now(b),
              !.atk = Append(@, [at |-> Now(b), id |-> b.s.id, target |-> g,
                                 prev |-> b.s.last_attack])]

\* SentientAnimat.attack; `prev` notes the time of the attack before
attack(b, g) ==
    IF Now(b) - b.s.last_attack < Second + 2 * Quarter THEN b
    ELSE [b EXCEPT !.s.last_attack = Now(b),
                   !.atk = Append(@, [at |-> Now(b), id |-> b.s.id,
                                      target |-> g,
                                      prev |-> b.s.last_attack])]

\* self.schedule(REEVALUATE_TIME + randint(5, 7) / 11,
\*               self._reevaluate_behavior), at the end of _behavior_changed
reschedule(b) == schedule(b, REEVALUATE_TIME, "_reevaluate_behavior")

\* a re-evaluation that arms wander in its own place
rearm_as_wander(b) == schedule(b, REEVALUATE_TIME, "wander")

\* the same call at the end of _reevaluate_behavior
rearm(b) == schedule(b, REEVALUATE_TIME, "_reevaluate_behavior")

\* the callback of the last schedule() call, if it is still queued
LastScheduled(b) ==
    IF \E i \in 1..Len(b.q) : b.q[i].id = b.nextId - 1
    THEN b.q[CHOOSE i \in 1..Len(b.q) : b.q[i].id = b.nextId - 1].cb
    ELSE NONE

\* SentientAnimat._behavior_changed
_behavior_changed(b, ch) ==
    IF ~has_work(b.a)
    THEN LET call == BestDirection(b, FALSE, ch)
             b1 == [b EXCEPT !.best = call]
         IN IF call.raised THEN [b1 EXCEPT !.raised = TRUE]
            ELSE IF call.dir = NONE
            THEN sentient_wander([b1 EXCEPT !.a = move(@, 0, 0)])
            ELSE reschedule([b1 EXCEPT
                                !.a = move(@, call.dir[1], call.dir[2])])
    ELSE reschedule(b)

\* SentientAnimat.flee
flee(b, g, ch) ==
    IF g \in b.s.fleeing THEN b
    ELSE _behavior_changed([b EXCEPT !.s.fleeing = @ \cup {g}], ch)

\* SentientAnimat.stop_fleeing
stop_fleeing(b, g) == [b EXCEPT !.s.fleeing = @ \ {g}]

\* SentientAnimat.chase
chase(b, g, ch) ==
    IF g = b.s.chasing THEN b
    ELSE _behavior_changed([b EXCEPT !.s.chasing = g], ch)

\* a forget that does not look at the chased g
sentient_forget_keeps_chasing(b, g) ==
    stop_fleeing([b EXCEPT !.s = forget(@, g)], g)

\* SentientAnimat.forget
sentient_forget(b, g) ==
    LET b1 == stop_fleeing([b EXCEPT !.s = forget(@, g)], g)
    IN IF b1.s.chasing = g THEN [b1 EXCEPT !.s.chasing = NONE] ELSE b1

\* SentientAnimat._reevaluate_behavior; `rets` takes what it returns, with
\* the direction it found (Stay when the chased one is close enough), the
\* fleeing set it met and the callback it scheduled last.  The test of lines
\* 133-136 assigns to if_fleeing, a name nothing reads: is_fleeing stays
\* the fleeing set
_reevaluate_behavior(b, ch) ==
    IF b.raised THEN b
    ELSE IF \E x \in b.s.fleeing : x \notin DOMAIN b.s.remembered_distances
    THEN [b EXCEPT !.raised = TRUE]                     \* KeyError, line 134
    ELSE
      LET is_fleeing == b.s.fleeing # {}
          returns(st, v, dir) ==
              [st EXCEPT !.rets = Append(@, [ret |-> v, dir |-> dir,
                                             fleeing |-> b.s.fleeing,
                                             armed |-> LastScheduled(st)])]
          again(st, dir) == returns(rearm(st), TRUE, dir)
      IN IF b.s.chasing = NONE /\ ~is_fleeing
         THEN LET b1 == schedule([b EXCEPT !.a = move(@, 0, 0)],
                                 2 * Second, "wander")
              IN IF b.s.fleeing = {} THEN returns(b1, FALSE, NONE)
                 ELSE again(b1, NONE)
         ELSE IF b.s.chasing # NONE
                 /\ b.s.chasing \notin DOMAIN b.s.remembered_distances
         THEN [b EXCEPT !.raised = TRUE]                \* KeyError, line 148
         ELSE
           LET chasing_distance ==
                   IF b.s.chasing = NONE THEN 0
                   ELSE b.s.remembered_distances[b.s.chasing]
               b1 == IF b.s.chasing # NONE /\ b.s.does_attack
                        /\ chasing_distance <= HURT_DISTANCE
                     THEN attack(b, b.s.chasing)
                     ELSE b
               dont_move == b.s.chasing # NONE /\ chasing_distance < 2
           IN IF dont_move THEN again([b1 EXCEPT !.a = move(@, 0, 0)], Stay)
              ELSE LET call == BestDirection(b1, TRUE, ch)
                       b2 == [b1 EXCEPT !.best = call]
                   IN IF call.raised THEN [b2 EXCEPT !.raised = TRUE]
                      ELSE IF call.dir = NONE
                      THEN returns(schedule([b2 EXCEPT !.a = move(@, 0, 0)],
                                            3 * Second, "wander"), FALSE,
                                   NONE)
                      ELSE again([b2 EXCEPT
                                    !.a = move(@, call.dir[1], call.dir[2])],
                                 call.dir)

\* the closure Animat.wander schedules, run on a SentientAnimat
sentient_callback(b, ch) ==
    IF b.raised THEN b
    ELSE LET call == BestDirection(b, FALSE, ch)
             b1 == [b EXCEPT !.best = call]
         IN IF call.raised THEN [b1 EXCEPT !.raised = TRUE]
            ELSE IF call.dir = NONE
            THEN IF call.behavior = NoBehavior /\ ch.usable = <<>>
                 THEN [b1 EXCEPT !.a = write_chat(@, "I'm stuck!")]
                 ELSE b1
            ELSE schedule([b1 EXCEPT !.a = [move(@, call.dir[1], call.dir[2])
                                               EXCEPT !.wandering = "True"]],
                          ch.wanderFor * Second, "stop_wandering")

\* SentientAnimat.stop_wandering
sentient_stop_wandering(b, ch) ==
    IF b.raised THEN b
    ELSE IF b.s.fleeing # {} \/ b.s.chasing # NONE
    THEN _reevaluate_behavior(b, ch)
    ELSE schedule([b EXCEPT !.a = [move(@, 0, 0) EXCEPT !.wandering = "False"]],
                  ch.restFor * Second, "wander")

\* whole pixels of hypot(dx, dy)
Hypot(dx, dy) ==
    CHOOSE d \in 0..(MaxTiles * tilesize) :
        d * d <= dx * dx + dy * dy /\ dx * dx + dy * dy < (d + 1) * (d + 1)

\* hypot(dx, dy) > n for a whole number n
HypotAbove(dx, dy, n) == dx * dx + dy * dy > n * n

\* PeacefulAnimat._saw_attack
_saw_attack(b, attacker, ch) ==
    IF /\ attacker \in DOMAIN b.s.remembered_distances
       /\ b.s.remembered_distances[attacker] < FLEE_DISTANCE
    THEN flee(b, attacker, ch)
    ELSE b

\* SentientAnimat._attacked: harmed_by(attacked_with, guid=attacked_by)
_attacked(b, attacked_by) == [b EXCEPT !.attacked = Append(@, attacked_by)]

\* a hit test that takes HURT_DISTANCE for tiles
HitTooFar_in_tiles(b, a_x, a_y) ==
    HypotAbove(b.s.position[1] - a_x, b.s.position[2] - a_y,
               HURT_DISTANCE * tilesize)

\* atk_distance > HURT_DISTANCE, lines 302-306
HitTooFar(b, a_x, a_y) ==
    HypotAbove(b.s.position[1] - a_x, b.s.position[2] - a_y, HURT_DISTANCE)

\* SentientAnimat._handle_message for "hit<guid>:<item>:<a_x>:<a_y>"
_handle_message_hit(b, g, a_x, a_y, ch) ==
    LET b1 == _saw_attack(b, g, ch)
    IN IF b1.raised \/ g = b1.s.id \/ HitTooFar(b1, a_x, a_y) THEN b1
       ELSE _attacked(b1, g)

\* Animat.do_work and, after it, SentientAnimat.do_work; a step of the
\* entity covers Stride pixels, clear is what _test_position finds
Stride == 50

do_work(b, clear, ch) ==
    LET v == b.a.velocity
        there == <<b.s.position[1] + v[1] * Stride,
                   b.s.position[2] + v[2] * Stride>>
        moved == [b EXCEPT !.s.position = there]
        call == BestDirection(moved, FALSE, ch)
        turned ==
            IF clear THEN moved
            ELSE IF call.raised \/ call.dir = NONE
            THEN [moved EXCEPT !.best = call, !.raised = TRUE]
            ELSE IF <<-call.dir[1], -call.dir[2]>> = v
            THEN [moved EXCEPT !.best = call, !.a = move(@, 0, 0)]
            ELSE [moved EXCEPT !.best = call,
                               !.a = move(@, call.dir[1], call.dir[2])]
        seen == DOMAIN turned.pl \cup {turned.s.id}
        known == DOMAIN turned.s.remembered_distances
    IN IF ~has_work(b.a) THEN b
       ELSE IF turned.raised \/ ~has_work(turned.a) THEN turned
       ELSE [turned EXCEPT !.s.remembered_distances =
                [g \in known \cup seen |->
                    IF g \in seen
                    THEN TileDistance(
                             turned.s.position[1] - PositionsOf(turned)[g][1],
                             turned.s.position[2] - PositionsOf(turned)[g][2],
                             tilesize)
                    ELSE turned.s.remembered_distances[g]]]

\* EntityServlet.on_leave, for the entity
leave(b, user) ==
    [sentient_forget(b, user) EXCEPT !.pl = DropKey(@, user)]

-----------------------------------------------------------------------------
(* One SentientAnimat in its location: players enter, move, hit and leave, *)
(* the loop of the worker fires its callbacks and makes it work            *)

MaxBeCalls == 4
MaxVisits == 1

Being == [q |-> schedule_queue, clock |-> clock, nextId |-> nextId,
          alive |-> alive, fired |-> fired,
          a |-> [animat EXCEPT !.said = <<>>],
          s |-> sentient, pl |-> players, w |-> where,
          atk |-> <<>>, attacked |-> <<>>, best |-> NoBest, rets |-> <<>>,
          ran |-> <<>>, raised |-> FALSE]

\* what get_movable_directions returns and random.choice picks
BeDraws ==
    {[usable |-> u, pick |-> IF u = <<>> THEN NONE ELSE u[1],
      stuck |-> u = <<>>, dir |-> <<1, 0>>, wanderFor |-> 1, restFor |-> 1] :
        u \in {<<>>, << <<0, 1>> >>, << <<1, 0>>, <<0, -1>> >>}}

\* where a player can stand: one tile above the entity's first position
\* and 18 tiles right of it
BeSpots == {<<500, 450>>, <<1400, 500>>}

\* the players that come to the location
BeGuids == {"p1"}

BeFrame == <<sessionVars, processVars, traceVars, cycleVars, levelVars,
             entities, ttl, timers, wpc, inQ, outQ, arrived, handled,
             produced, published, loop_now, last_loop_iteration, ranged>>

\* what a run of a handler leaves; an exception ends the worker
BeCommit(b, op) ==
    /\ b.nextId <= MaxBeCalls
    /\ schedule_queue' = b.q
    /\ nextId' = b.nextId
    /\ alive' = b.alive
    /\ fired' = b.fired
    /\ animat' = b.a
    /\ calls' = OtherCall
    /\ sentient' = b.s
    /\ players' = b.pl
    /\ where' = b.w
    /\ did' = Did("main", [name |-> op.name, g |-> op.g,
                           atk |-> b.atk, attacked |-> b.attacked,
                           rets |-> b.rets, raised |-> b.raised,
                           ran |-> b.ran,
                           lost |-> (sentient.fleeing \ b.s.fleeing) \cup
                                    ({sentient.chasing} \
                                         {b.s.chasing, NONE})])
    /\ wstate' = IF b.raised THEN "crashed" ELSE "running"
    /\ visits' = [g \in DOMAIN visits |->
                      IF op.name = "on_enter" /\ op.g = g THEN visits[g] + 1
                      ELSE visits[g]]
    /\ UNCHANGED <<clock, best, BeFrame>>

Op(name, g) == [name |-> name, g |-> g]

\* the class of the entity: whether it attacks
BeSpawn ==
    /\ wstate = "new"
    /\ \E da \in BOOLEAN :
           BeCommit([Being EXCEPT !.s.does_attack = da], Op("spawn", NONE))

\* EntityServlet.on_enter
BeEnter ==
    \E g \in BeGuids \ DOMAIN players :
        /\ wstate = "running"
        /\ visits[g] < MaxVisits
        /\ BeCommit([Being EXCEPT !.pl = PutKey(@, g, SimulatedPlayer(g)),
                                  !.w[g] = <<0, 0>>],
                    Op("on_enter", g))

\* EntityServlet.on_leave
BeLeave ==
    \E g \in DOMAIN players :
        /\ wstate = "running"
        /\ BeCommit([leave(Being, g) EXCEPT !.w[g] = <<0, 0>>],
                    Op("on_leave", g))

\* a loc message of a player: Entity.handle_message, _player_movement
BeLoc ==
    \E g \in DOMAIN players, spot \in BeSpots :
        /\ wstate = "running"
        /\ BeCommit([Being EXCEPT
                        !.w[g] = spot,
                        !.s = _player_movement(@, g, spot[1], spot[2]).e],
                    Op("loc", g))

\* where the one who hits stands
HitSpot(g) == IF g = sentient.id THEN sentient.position ELSE where[g]

\* a hit message of a player, or one that names the entity itself (while it
\* has no distance to itself in mind), with the place of the one who hits
BeHit ==
    \E g \in DOMAIN players \cup {sentient.id}, ch \in BeDraws :
        /\ wstate = "running"
        /\ g = sentient.id => g \notin DOMAIN sentient.remembered_distances
        /\ BeCommit(_handle_message_hit(Being, g, HitSpot(g)[1], HitSpot(g)[2],
                                        ch),
                    Op("hit", g))

\* the entity's class has it chase a player it has measured
BeChase ==
    \E g \in DOMAIN players \cap DOMAIN sentient.remembered_distances,
       ch \in BeDraws :
        /\ wstate = "running"
        /\ BeCommit(chase(Being, g, ch), Op("chase", g))

\* the loop fires what is due
BeFire ==
    \E ch \in BeDraws :
        /\ wstate = "running"
        /\ schedule_queue # <<>>
        /\ schedule_queue[1].then <= clock
        /\ BeCommit(fire_events(Being, clock, ch), Op("fire_events", NONE))

\* the loop has the moving entity work
BeWork ==
    \E clear \in BOOLEAN, ch \in BeDraws :
        /\ wstate = "running"
        /\ has_work(animat)
        /\ sentient.position = NewSentient.position
        /\ BeCommit(do_work(Being, clear, ch), Op("do_work", NONE))

BeTick ==
    /\ wstate = "running"
    /\ clock < MaxClock + REEVALUATE_TIME
    /\ clock' = clock + 1
    /\ did' = Did("clock", [name |-> "time"])
    /\ UNCHANGED <<schedule_queue, nextId, alive, fired, animatVars, sentVars,
                   players, wstate, visits, BeFrame>>

BeNext ==
    \/ BeSpawn
    \/ BeEnter
    \/ BeLeave
    \/ BeLoc
    \/ BeHit
    \/ BeChase
    \/ BeFire
    \/ BeWork
    \/ BeTick

SpecBehave == Init /\ [][BeNext]_vars

\* the entity holds nothing about g
Unknown(s, g) ==
    /\ g \notin DOMAIN s.remembered_distances
    /\ g \notin s.fleeing
    /\ s.chasing # g

\* a step that is on_leave(g)
Leaves(g) == g \in DOMAIN players /\ g \notin DOMAIN players'

\* C26: after on_leave(g) the guid is no tracked player and the entity holds
\* neither a remembered distance nor a fear nor a chase of it, for as long as
\* g stays away; and forgetting a guid the entity does not know changes
\* nothing of the entity
C26_LeftGuidForgotten ==
    /\ [](\A g \in BeGuids : g \notin DOMAIN players => Unknown(sentient, g))
    /\ [][\A g \in BeGuids :
             Leaves(g) /\ Unknown(sentient, g)
                 => /\ sentient' = sentient
                    /\ animat'.velocity = animat.velocity
                    /\ animat'.said = <<>>
                    /\ schedule_queue' = schedule_queue]_vars

\* a player left whom the entity feared or chased: a re-evaluation of that
\* behaviour is still pending
C26_LeftWhileFeared ==
    /\ did.thread = "main"
    /\ did.op.name = "on_leave"
    /\ DOMAIN players = {}
    /\ \E i \in 1..Len(schedule_queue) :
           schedule_queue[i].cb = "_reevaluate_behavior"

\* the last step was a hit message that was handled to its end
HitHandled == did.thread = "main" /\ did.op.name = "hit" /\ ~did.op.raised

\* C27: a hit reaches _attacked exactly when its attacker is not the entity
\* and its coordinates are at most one tile (tilesize pixels) from the entity
C27_HitWithinOneTile ==
    HitHandled =>
        (did.op.attacked # <<>>
            <=> /\ did.op.g # sentient.id
                /\ ~HitTooFar_in_tiles([s |-> sentient], HitSpot(did.op.g)[1],
                                       HitSpot(did.op.g)[2]))

\* what the comparison of the pixel distance with HURT_DISTANCE makes of it:
\* the hit is applied at up to one pixel from the entity
C27_HitWithinOnePixel ==
    HitHandled =>
        (did.op.attacked # <<>>
            <=> /\ did.op.g # sentient.id
                /\ ~HitTooFar([s |-> sentient], HitSpot(did.op.g)[1],
                              HitSpot(did.op.g)[2]))

\* a hit of a player was applied
C27_HitApplied == HitHandled /\ did.op.attacked # <<>>

\* C28: the atk events of the entity are at least 1.5 seconds apart: a step
\* emits at most one, no sooner than 1.5 seconds after the one before, and
\* an attack that comes sooner emits nothing and leaves last_attack as it was
C28_AttacksApart ==
    [][did'.thread = "main" =>
          LET emitted == did'.op.atk
          IN /\ Len(emitted) <= 1
             /\ \A i \in 1..Len(emitted) :
                    /\ emitted[i].at - sentient.last_attack
                           >= Second + 2 * Quarter
                    /\ sentient'.last_attack = emitted[i].at
             /\ emitted = <<>> => sentient'.last_attack = sentient.last_attack
      ]_vars

\* the entity emitted an attack after an earlier one
C28_SecondAttack ==
    /\ did.thread = "main"
    /\ did.op.atk # <<>>
    /\ did.op.atk[1].prev > 0

\* a re-evaluation called attack within 1.5 seconds of the last one
C28_AttackSuppressed ==
    /\ did.thread = "main"
    /\ did.op.name = "fire_events"
    /\ did.op.rets # <<>>
    /\ did.op.atk = <<>>
    /\ sentient.does_attack
    /\ sentient.chasing \in DOMAIN sentient.remembered_distances
    /\ sentient.remembered_distances[sentient.chasing] <= HURT_DISTANCE
    /\ sentient.last_attack > 0
    /\ Epoch + clock - sentient.last_attack < Second + 2 * Quarter

\* a step in which the entity came to fear one more guid or to chase another
BehaviorChanges ==
    \/ ~(sentient'.fleeing \subseteq sentient.fleeing)
    \/ sentient'.chasing \notin {NONE, sentient.chasing}

Pending(q, callback) == \E i \in 1..Len(q) : q[i].cb = callback

\* C29: every change of behaviour (a flee of a guid not yet feared, a chase
\* of a guid other than the chased one) leaves a _reevaluate_behavior
\* callback pending in the schedule queue
C29_ChangeArmsReevaluation ==
    [][BehaviorChanges /\ wstate' = "running"
           => Pending(schedule_queue', "_reevaluate_behavior")]_vars

\* where the entity could pick a direction, or was moving, the change of
\* behaviour leaves the callback pending
C29_ArmedWhenDirectionFound ==
    [][BehaviorChanges /\ wstate' = "running"
           /\ (has_work(animat) \/ has_work(animat'))
           => Pending(schedule_queue', "_reevaluate_behavior")]_vars

\* the entity fears or chases and has nothing at all scheduled
C29_NothingPending ==
    /\ wstate = "running"
    /\ sentient.fleeing # {} \/ sentient.chasing # NONE
    /\ schedule_queue = <<>>

\* C30: a re-evaluation leaves the fleeing set as it is: a guid only leaves
\* the set when it is forgotten (stop_fleeing has no other caller), however
\* far away it is; and a re-evaluation that meets a non-empty fleeing set
\* and finds a direction schedules itself again and returns true
C30_ReevaluationKeepsFleeing ==
    [][/\ \A g \in sentient.fleeing \ sentient'.fleeing : Leaves(g)
       /\ did'.thread = "main" =>
              \A i \in 1..Len(did'.op.rets) :
                  LET e == did'.op.rets[i]
                  IN /\ e.fleeing = sentient.fleeing
                     /\ e.fleeing # {} /\ e.dir # NONE
                            => e.ret /\ e.armed = "_reevaluate_behavior"
      ]_vars

\* a re-evaluation found a direction while every feared guid was farther
\* away than FLEE_DISTANCE
C30_FarAndStillFleeing ==
    /\ did.thread = "main"
    /\ did.op.name = "fire_events"
    /\ \E i \in 1..Len(did.op.rets) :
           /\ did.op.rets[i].ret
           /\ did.op.rets[i].dir # NONE
           /\ did.op.rets[i].dir # Stay
    /\ sentient.fleeing # {}
    /\ sentient.chasing = NONE
    /\ \A g \in sentient.fleeing :
           sentient.remembered_distances[g] > FLEE_DISTANCE

-----------------------------------------------------------------------------
(* The same entity under a loop that keeps running: time passes and what   *)
(* is due is fired                                                         *)

\* a callback is due
Due ==
    /\ wstate = "running"
    /\ schedule_queue # <<>>
    /\ schedule_queue[1].then <= clock

FireStep == did'.thread = "main" /\ did'.op.name = "fire_events"

TickStep == clock' = clock + 1

\* the loop of run() never ends: the clock keeps going, and what is due is
\* fired (WF_vars(BeFire), with ENABLED written out as Due)
SpecBehaveFair ==
    /\ SpecBehave
    /\ WF_vars(BeTick)
    /\ ([]<>(~Due) \/ []<><<FireStep>>_vars)

\* the entity has just lost the last guid it feared or chased
LostLastTarget ==
    /\ did.thread = "main"
    /\ did.op.lost # {}
    /\ wstate = "running"
    /\ sentient.fleeing = {}
    /\ sentient.chasing = NONE

\* the loop fired a wander callback and the entity stands
WanderFired ==
    /\ did.thread = "main"
    /\ \E i \in 1..Len(did.op.ran) : did.op.ran[i] = "wander"
    /\ ~has_work(animat)

\* the model's end: callbacks are still queued when the clock or the
\* number of schedule() calls has reached its bound, or the player is back
BeyondBounds ==
    \/ schedule_queue # <<>>
          /\ (clock = MaxClock + REEVALUATE_TIME \/ nextId >= MaxBeCalls)
    \/ sentient.fleeing # {}
    \/ sentient.chasing # NONE
    \/ wstate # "running"

\* C31: an entity that has lost its last flee and chase target stops and
\* goes back to wandering: a wander callback is fired in the end, as long
\* as the loop keeps firing what is due
C31_ResumesWandering == LostLastTarget ~> (WanderFired \/ BeyondBounds)

\* the entity has no target, stands or moves, and has an empty queue: there
\* is nothing that could ever fire
C31_NothingToFire ==
    /\ LostLastTarget
    /\ schedule_queue = <<>>

-----------------------------------------------------------------------------
(* comm.py: levels.  A session registers (and slides to a level by it),    *)
(* loads levels by address, walks, and its Scheduler fires                 *)
(* _on_schedule_event, which takes it through the portals of its location  *)

Portal(x, y, destination, dest_coords) ==
    [x |-> x, y |-> y, width |-> 2, height |-> 2,
     destination |-> destination, dest_coords |-> dest_coords]

\* Location.generate()[2]: a level of the world has the doors of two
\* buildings, a building has its way out
PortalsOf(loc) ==
    IF loc.subs = <<>>
    THEN << Portal(10, 10, LevPayload("sub", "b1", NoLocation), <<3, 3>>),
            Portal(20, 20, LevPayload("sub", "b2", NoLocation), <<4, 4>>) >>
    ELSE << Portal(5, 5, LevPayload("up", "", NoLocation), <<0, 0>>) >>

\* touching_portal(p) for the tile position (x_t, y_t), all in pixels:
\* for whole pixels x / tilesize is the floor, after an extrapolation the
\* position is a float and so is the quotient
touching_portal(p, x, y, exact) ==
    LET x_t == IF exact THEN x ELSE (x \div tilesize) * tilesize
        y_t == IF exact THEN y ELSE (y \div tilesize) * tilesize
        px == p.x * tilesize
        py == p.y * tilesize
        pw == p.width * tilesize
        ph == p.height * tilesize
    IN ~(\/ px + pw < x_t
         \/ x_t + tilesize < px
         \/ py + ph < y_t - tilesize
         \/ y_t < py)

\* a loop that tests every portal of the list
PortalsTested_all(portals) == portals

\* `for portal in portals: if ...: ...; break`: the break ends the first
\* pass of the loop, whatever the test gave
PortalsTested(portals) ==
    IF portals = <<>> THEN <<>> ELSE <<portals[1]>>

\* the position _on_schedule_event works with: extrapolated by k = duration
\* * speed pixels along the velocity when the firing is a scheduled one
Extrapolated(ses, scheduled, k) ==
    IF scheduled
    THEN <<ses.position[1] + ses.velocity[1] * k,
           ses.position[2] + ses.velocity[2] * k>>
    ELSE ses.position

\* CommHandler._on_schedule_event
_on_schedule_event(c, s, scheduled, k) ==
    LET vel == IF scheduled THEN c.ses.velocity ELSE c.ses.old_velocity
        c1 == [c EXCEPT !.ses.old_velocity = vel, !.ran = "_on_schedule_event"]
        at == Extrapolated(c.ses, scheduled, k)
        c2 == IF scheduled THEN [c1 EXCEPT !.ses.position = at] ELSE c1
    IN IF NoCoord \in {c.ses.position[1], c.ses.position[2]}
       THEN Raise(c1)                      \* None + float, "%d" % None
       ELSE
         LET c3 == _notify_location(c2, c2.ses.location,
                       [tag |-> "loc", guid |-> c2.ses.guid,
                        x |-> at[1], y |-> at[2],
                        x_vel |-> c2.ses.velocity[1],
                        y_vel |-> c2.ses.velocity[2],
                        for_entities |-> scheduled])
         IN IF c3.ses.location = NoLocation
            THEN Raise(c3)                 \* None has no generate
            ELSE
              LET tested == PortalsTested(PortalsOf(c3.ses.location))
                  hit == {i \in 1..Len(tested) :
                             touching_portal(tested[i], at[1], at[2], scheduled)}
                  c4 ==
                    IF (scheduled \/ c3.ses.velocity = <<0, 0>>) /\ hit # {}
                    THEN LET portal == tested[CHOOSE i \in hit :
                                                  \A j \in hit : i <= j]
                             told == write_message(c3,
                                        [tag |-> "flv",
                                         dest |-> portal.destination])
                         IN _load_level(
                                [told EXCEPT !.ses.velocity = <<0, 0>>], s,
                                portal.destination, portal.dest_coords[1],
                                portal.dest_coords[2])
                    ELSE c3
              IN IF c4.raised THEN c4
                 ELSE [c4 EXCEPT !.ret =
                          IF c4.ses.velocity # <<0, 0>> THEN "True"
                          ELSE "False"]

\* the approach values of a slide, in pixels: the centre, behind the near
\* edge, the first tiles, a tile in the middle, the last tiles and beyond
Approaches == {-1, -60, 0, 99, 100, 1000, 3650, 3699, 3700, 3760}

\* the addresses a lev frame names: a level of the world, the inside of a
\* building
LevelAddrs == {LevPayload("addr", "", Origin),
               LevPayload("addr", "", Addr("o", 0, 0, <<"b1">>))}

\* where a walking session reports to be (in halves, as LocPayloads): at the
\* first door, at the second door, away from both, at the way out
WalkPayloads == {LocPayload(1000, 1000, 0, 0), LocPayload(2000, 2000, 0, 0),
                 LocPayload(4000, 4000, 2, 0), LocPayload(500, 500, 0, 0)}

\* the positions of WalkPayloads; a walk is extrapolated from these only,
\* by Stretch pixels
Reported == {<<IntOfFloat(d.v[1]), IntOfFloat(d.v[2])>> : d \in WalkPayloads}

Stretch == 30

InWorld(loc) == loc.x \in -MaxSlide..MaxSlide /\ loc.y \in -MaxSlide..MaxSlide

\* the frames of a session that registers, loads levels and walks
LevelFrames ==
    {[tag |-> "reg", data |-> "a"]}
    \cup {[tag |-> "lev", data |-> d] : d \in LevPayloads \cup LevelAddrs}
    \cup {[tag |-> "loc", data |-> d] : d \in WalkPayloads}

LvFrame(s) ==
    \E m \in LevelFrames :
        /\ (m.tag = "reg" /\ location[s] # NoLocation) =>
               location[s].x > -MaxSlide
        /\ (m.tag = "lev" /\ m.data.kind = "sub") =>
               Len(parent_positions[s]) < MaxDepth
        /\ m.tag # "loc" => MembersBounded
        /\ Handle(s, m.tag, m.data)

\* a call of _level_slide with the edge x and approach values of `avs`
Slide(s, xs, avs, avys) ==
    \E x \in xs, avx \in avs, avy \in avys :
        /\ conn[s] = "open"
        /\ MembersBounded
        /\ LET c == _level_slide([Ctx(s) EXCEPT !.ran = "_level_slide"], s,
                                 x, 100, avx, avy)
           IN /\ InWorld(c.ses.location)
              /\ Commit(s, c)
              /\ conn' = [conn EXCEPT ![s] = IF c.raised THEN "aborted"
                                             ELSE "open"]
        /\ req' = [s |-> s, tag |-> "slide", data |-> <<x, 100, avx, avy>>]
        /\ UNCHANGED <<connections, cycleVars, schedVars, simVars>>

\* the Scheduler of the session fires (internals/scheduler.py is not part of
\* the sources): the firing is repeated as long as the callback returns true
LvFire(s) ==
    \E scheduled \in BOOLEAN,
       k \in IF position[s] \in Reported THEN {0, Stretch} ELSE {0} :
        /\ conn[s] = "open"
        /\ armed[s]
        /\ MembersBounded
        /\ \E c \in {_on_schedule_event(Ctx(s), s, scheduled, k)} :
               /\ Len(c.ses.parent_positions) <= MaxDepth
               /\ Commit(s, [c EXCEPT !.ses.armed = ~c.raised /\ c.ret = "True"])
        /\ req' = [s |-> s, tag |-> "fire",
                   data |-> [scheduled |-> scheduled, k |-> k]]
        /\ UNCHANGED <<conn, connections, cycleVars, schedVars, simVars>>

LevelsNext ==
    \E s \in {Client} :
        \/ Open(s)
        \/ LvFrame(s)
        \/ LvFire(s)

SpecLevels == Init /\ [][LevelsNext]_vars

-----------------------------------------------------------------------------
(* comm.py: _level_slide over all the approach values *)

SlRegister(s) == location[s] = NoLocation /\ Handle(s, "reg", "a")

SlSlide(s) == Slide(s, {0, 3750}, Approaches, Approaches)

SlideNext ==
    \E s \in {Client} :
        \/ Open(s)
        \/ SlRegister(s)
        \/ SlSlide(s)

SpecSlide == Init /\ [][SlideNext]_vars

\* the step is a call of _level_slide that loaded a level
Slid == req'.tag = "slide" /\ ret' # "raised"

\* what the claim gives for an approach value: its tile is less than two
\* tiles from the near edge (0) or from the far edge (size)
SpawnTile(av, size) ==
    LET t == av \div tilesize
    IN IF av = -1 THEN size \div 2
       ELSE IF t - 0 < 2 THEN size - 1
       ELSE IF size - t < 2 THEN 0
       ELSE t

-----------------------------------------------------------------------------
(* comm.py: the parent-position stack and the address of the location *)

\* the sub-location segments of the address of a location
Segments(loc) == IF loc = NoLocation THEN 0 ELSE Len(loc.subs)

\* C40: in every state of a session whose handlers all returned, the
\* parent-position stack is as long as the address of the current location
\* has sub-location segments
C40_StackMatchesAddress ==
    conn[Client] = "open" =>
        Len(parent_positions[Client]) = Segments(location[Client])

\* the session came back, by one load of "..", from the sub-location it had
\* entered by one load of ":tok", with no other level load in between
CameBack ==
    /\ descent[Client].last = "up"
    /\ descent[Client].at # NoLocation
    /\ conn[Client] = "open"

\* C33: entering a sub-location and leaving it is a round trip: the session
\* is at the address and the position it had before the descent, and its
\* parent-position stack is as long as it was
C33_DescentRoundTrip ==
    CameBack =>
        /\ location[Client] = descent[Client].at
        /\ position[Client] = descent[Client].pos
        /\ Len(parent_positions[Client]) = descent[Client].depth

\* the way back was taken through the portal of the sub-location, after
\* the session had walked to it
C33_BackThroughPortal ==
    /\ CameBack
    /\ req.tag = "fire"
    /\ position[Client] = descent[Client].pos
    /\ position[Client] # <<250, 250>>

-----------------------------------------------------------------------------
(* comm.py: _on_schedule_event and the portals *)

\* the step is a firing of _on_schedule_event that returned, in a location,
\* automatic or with the session at rest
PortalsLookedAt ==
    /\ req'.tag = "fire"
    /\ ret' # "raised"
    /\ location[Client] # NoLocation
    /\ req'.data.scheduled \/ velocity[Client] = <<0, 0>>

\* the session was taken through `portal`
TakenThrough(portal) ==
    /\ InSeq(out', [tag |-> "flv", dest |-> portal.destination])
    /\ velocity'[Client] = <<0, 0>>
    /\ descent'[Client].last = portal.destination.kind
    /\ ret' = "False"

\* C32: a firing that is automatic or finds the session at rest takes the
\* session through the portal its position overlaps, whatever the index of
\* the portal in the list of the location: flv is sent, the velocity is
\* zeroed, the level of the portal is loaded and the callback returns false
C32_AnyPortalTaken ==
    [][PortalsLookedAt =>
         LET at == Extrapolated(Ses(Client), req'.data.scheduled, req'.data.k)
             portals == PortalsOf(location[Client])
         IN \A i \in 1..Len(portals) :
                touching_portal(portals[i], at[1], at[2], req'.data.scheduled)
                    => TakenThrough(portals[i])]_vars

-----------------------------------------------------------------------------
(* sentient.py: the pending _reevaluate_behavior callbacks *)

\* the entries of the schedule queue that hold `callback`
PendingCalls(q, callback) == {i \in 1..Len(q) : q[i].cb = callback}

\* C39: at most one _reevaluate_behavior callback is pending in the
\* schedule queue of a SentientAnimat
C39_OneReevaluationPending ==
    wstate = "running" =>
        Cardinality(PendingCalls(schedule_queue, "_reevaluate_behavior")) <= 1

-----------------------------------------------------------------------------
(* trader.py and entity_servlet.py: where spawn_initial_entities places a *)
(* Trader on the grid of the location                                      *)

\* Trader.get_placeable_locations(grid, hitmap): the (x, y) of the road
\* tiles, counted from 0; an empty list when the grid has none
get_placeable_locations(grid) ==
    {xy \in (0..(Len(grid[1]) - 1)) \X (0..(Len(grid) - 1)) :
        grid[xy[2] + 1][xy[1] + 1] = ROAD_MATERIAL}

\* random.randint(int(0.1 * size), int(0.9 * size))
Anywhere(size) == (size \div 10)..((9 * size) \div 10)

\* the tiles spawn_initial_entities may place an entity on whose
\* get_placeable_locations returned `placeable` (a list, never None, for a
\* Trader)
SpawnTiles(placeable, width, height) ==
    IF placeable = {}                     \* `elif not placeable_locations`
    THEN Anywhere(width) \X Anywhere(height)
    ELSE placeable                        \* random.choice

\* the grids of a location: roads in the first two rows at most
TraderGrids ==
    {[r \in 1..RoadRows |-> [c \in 1..RoadCols |->
          IF <<r, c>> \in S THEN ROAD_MATERIAL ELSE 0]] :
        S \in SUBSET ((1..2) \X (1..RoadCols))}

\* Location.generate() of the worker's location
TraderLevel ==
    /\ roads.applied = -1
    /\ \E g \in TraderGrids :
           roads' = [applied |-> 0, grid |-> g, given |-> g, before |-> g,
                     raised |-> FALSE]
    /\ UNCHANGED <<sessionVars, processVars, traceVars, cycleVars, schedVars,
                   animatVars, workerVars, sentVars, town, visits>>

\* one pass of the loop of spawn_initial_entities, for a Trader
TraderSpawn ==
    /\ roads.applied = 0
    /\ Len(entities) < 2
    /\ \E xy \in SpawnTiles(get_placeable_locations(roads.grid),
                             Len(roads.grid[1]), Len(roads.grid)) :
           LET e == NewEntity(EntityId(Len(entities) + 1),
                              xy[1] * tilesize, xy[2] * tilesize)
               w == [Worker EXCEPT !.entities = Append(@, e)]
           IN /\ WCommit(spawn_entity(w, e))
              /\ did' = Did("main", [name |-> "spawn_initial_entities",
                                     x |-> xy[1], y |-> xy[2]])
    /\ UNCHANGED <<WorkerFrame, clock, inQ, arrived, handled, published,
                   wstate, wpc, loop_now, last_loop_iteration>>

TraderNext == TraderLevel \/ TraderSpawn

SpecTrader == Init /\ [][TraderNext]_vars

\* the grid id of the tile an entity stands on
TileUnder(e) ==
    roads.grid[e.position[2] \div tilesize + 1][e.position[1] \div tilesize + 1]

\* C35: every Trader among the entities of the worker stands on a tile whose
\* grid id is the road material, on every grid, one without road included
C35_TraderOnRoad ==
    \A i \in 1..Len(entities) : TileUnder(entities[i]) = ROAD_MATERIAL

-----------------------------------------------------------------------------
(* towns.py: build_town under every sequence of draws.  The grid is left   *)
(* out: no test of build_town reads it                                     *)

\* the largest building budget drawn, of random.randint(6, 15)
MaxBudget == 7

\* the walk of build_town without the overlay and fill_road calls made
Walk(t) == [t EXCEPT !.overlays = <<>>, !.fills = <<>>]

BuildBegin ==
    /\ town.phase = "none"
    /\ \E center \in {"plaza", "well"}, building_limit \in 6..MaxBudget :
           town' = [phase |-> "first", rng |-> 0, seed |-> 0,
                    t |-> Walk(build_town_drawn(center, building_limit, 0)),
                    first |-> <<>>]
    /\ UNCHANGED TownFrame

\* random.choice(available_buildings) and the rest of the pass
BuildPlace ==
    /\ town.phase = "first"
    /\ town.t.phase = "placing"
    /\ ~border_conds(town.t)
    /\ town.t.available_buildings # <<>>       \* else IndexError
    /\ \E r \in 0..(RngStates - 1) :
           town' = [town EXCEPT !.t = Walk(place_building(r, town.t))]
    /\ UNCHANGED TownFrame

BuildTurn ==
    /\ town.phase = "first"
    /\ town.t.phase = "placing"
    /\ border_conds(town.t)
    /\ town' = [town EXCEPT !.t = Walk(end_direction(town.t))]
    /\ UNCHANGED TownFrame

BuildReturn ==
    /\ town.phase = "first"
    /\ town.t.phase = "smoothing"
    /\ town' = [town EXCEPT !.t.phase = "returned"]
    /\ UNCHANGED TownFrame

BuildNext == BuildBegin \/ BuildPlace \/ BuildTurn \/ BuildReturn

SpecBuild == Init /\ [][BuildNext]_vars

\* the tick of the interpreter: build_town runs on as long as it can
SpecBuildLive == SpecBuild /\ WF_vars(BuildNext)

Building == town.phase = "first" /\ town.t.phase = "placing"

Pool(t) == {t.available_buildings[i] : i \in 1..Len(t.available_buildings)}

\* how far the walk is from the border of its direction
Gap(t) ==
    CASE t.direction = 0 -> t.old_boundaries[3] - t.y
      [] t.direction = 1 -> t.x - t.old_boundaries[4]
      [] t.direction = 2 -> t.y - t.old_boundaries[1]
      [] OTHER -> t.town_boundaries[2] - t.x

\* the step places a building
Places == Building /\ town'.t.building_count = town.t.building_count + 1

\* C36: build_town terminates for every sequence of draws: the pool holds
\* the repeatable shop and house whenever a building is drawn, a template
\* that is not repeatable leaves the pool when it is placed, every placement
\* brings the walk closer to its border, the first direction of every pass
\* of the outer loop places a building, and the call returns
C36_BuildTownTerminates ==
    /\ [](Building => REPEATABLE_BUILDINGS \subseteq Pool(town.t))
    /\ [][Places =>
            /\ Gap(town'.t) < Gap(town.t)
            /\ \/ town'.t.available_buildings = town.t.available_buildings
               \/ \E b \in Pool(town.t) \ REPEATABLE_BUILDINGS :
                      /\ Pool(town'.t) = Pool(town.t) \ {b}
                      /\ Len(town'.t.available_buildings) =
                             Len(town.t.available_buildings) - 1]_vars
    /\ []((Building /\ town.t.direction = 0 /\ border_conds(town.t))
              => town.t.widest_building > 0)
    /\ <>(town.phase = "first" /\ town.t.phase = "returned")

\* build_town returned after more than one pass of its outer loop, with
\* every template that is not repeatable placed
C36_ReturnedAfterPasses ==
    /\ town.phase = "first"
    /\ town.t.phase = "returned"
    /\ town.t.iteration > 1
    /\ Pool(town.t) = REPEATABLE_BUILDINGS

-----------------------------------------------------------------------------
(* entity_servlet.py and comm.py: the worker of one location and the       *)
(* sessions of the front end that enter and leave locations.  A message is *)
(* handled by the worker as soon as it is published                        *)

\* the location of the worker, and another one
Here == Origin
There == Addr("o", 1, 0, <<>>)

\* EntityServlet.spawn_drop
spawn_drop(w, x, y) ==
    LET e == NewEntity(EntityId(Len(w.entities) + 1), x, y)
    IN spawn_entity([w EXCEPT !.entities = Append(@, e)], e)

\* EntityServlet._handle_event for an event of the channels the worker is
\* subscribed to: global::enter and global::drop, whose payload begins with
\* the location it is about, and the channel of its own location.  What
\* follows the location in an enter or drop payload begins with a guid: its
\* first three characters are no message type for the guids of the model
_handle_event_at(w, event) ==
    LET m == event.data
    IN IF event.channel = "global::enter" /\ m.loc = Here
       THEN on_enter(w, m.guid, FALSE, <<>>)
       ELSE IF event.channel = "global::drop" /\ m.loc = Here
       THEN spawn_drop(w, m.x, m.y)
       ELSE IF event.channel \in {"global::enter", "global::drop"}
       THEN Forward(w, [tag |-> "other", guid |-> m.guid], 1)
       ELSE _handle_event(w, event)

EnterAt(loc, g) ==
    [type |-> "message", channel |-> "global::enter",
     data |-> [tag |-> "enter", loc |-> loc, guid |-> g]]

DropAt(loc, g, x, y) ==
    [type |-> "message", channel |-> "global::drop",
     data |-> [tag |-> "drop", loc |-> loc, guid |-> g, x |-> x, y |-> y]]

EvFrame == <<conn, position, parent_positions, velocity, old_velocity,
             chat_name, inventory, armed, processVars, traceVars,
             cycleVars, animatVars, sentVars, levelVars, visits,
             schedule_queue, clock, inQ, arrived, handled, published, wpc,
             loop_now, last_loop_iteration>>

\* the worker after the flush that ends an iteration of its loop
Flushed == [Worker EXCEPT !.outQ = <<>>, !.produced = <<>>]

\* the worker takes `event` from its subscriptions, if it runs
Deliver(event) ==
    IF wstate = "running"
    THEN \E w \in {_handle_event_at(Flushed, event)} :
             /\ WCommit(w)
             /\ wstate' = IF w.raised THEN "crashed" ELSE "running"
             /\ did' = Did("main", [name |-> "_handle_event", event |-> event,
                                    left |-> w.left, heard |-> w.heard])
    ELSE /\ UNCHANGED <<entities, players, ttl, timers, outQ, produced,
                        ranged, nextId, alive, fired, wstate>>
         /\ did' = Did("main", [name |-> "none", event |-> event,
                                left |-> <<>>, heard |-> <<>>])

\* comm.add_client of a session that registered guid g: the enter message.
\* The worker of a location starts with the first player that enters it
EvEnter(s) ==
    \E g \in Guids, loc \in {Here, There} :
        /\ location[s] = NoLocation
        /\ Len(timers) < MaxVisits + 1
        /\ guid' = [guid EXCEPT ![s] = g]
        /\ location' = [location EXCEPT ![s] = loc]
        /\ IF wstate = "new" /\ loc = Here
           THEN /\ WCommit(on_enter(Flushed, g, TRUE,
                                    <<[x |-> 2, y |-> 0, busy |-> FALSE]>>))
                /\ wstate' = "running"
                /\ did' = Did("main", [name |-> "start",
                                       event |-> EnterAt(loc, g),
                                       left |-> <<>>, heard |-> <<>>])
           ELSE Deliver(EnterAt(loc, g))
        /\ UNCHANGED EvFrame

\* comm.del_client: the del message on the channel of the location
EvLeave(s) ==
    /\ location[s] # NoLocation
    /\ location' = [location EXCEPT ![s] = NoLocation]
    /\ guid' = guid
    /\ IF location[s] = Here
       THEN Deliver(DelEvent(guid[s]))
       ELSE /\ UNCHANGED <<entities, players, ttl, timers, outQ, produced,
                           ranged, nextId, alive, fired, wstate>>
            /\ did' = Did("main", [name |-> "none", event |-> DelEvent(guid[s]),
                                   left |-> <<>>, heard |-> <<>>])
    /\ UNCHANGED EvFrame

\* CommHandler._on_position_update: the loc message on the channel of the
\* location
EvLoc(s) ==
    /\ location[s] = Here
    /\ Deliver(LocEvent(guid[s], 100, 0, 1, 0))
    /\ UNCHANGED <<guid, location, EvFrame>>

\* InventoryManager.drop_item: the drop message
EvDrop(s) ==
    /\ location[s] # NoLocation
    /\ Len(entities) < 2
    /\ Deliver(DropAt(location[s], guid[s], 100, 0))
    /\ UNCHANGED <<guid, location, EvFrame>>

EventsNext ==
    \E s \in Sessions :
        \/ EvEnter(s)
        \/ EvLeave(s)
        \/ EvLoc(s)
        \/ EvDrop(s)

SpecEvents == Init /\ [][EventsNext]_vars

\* the worker handled an enter or drop message about another location
ForeignHandled ==
    /\ did'.thread = "main"
    /\ did'.op.name = "_handle_event"
    /\ did'.op.event.channel \in {"global::enter", "global::drop"}
    /\ did'.op.event.data.loc # Here

\* C37: an enter or drop message about another location has no effect on
\* the worker: no player is added or removed, no entity is spawned, and the
\* message is not forwarded to handle_message of any entity
C37_ForeignMessageIgnored ==
    [][ForeignHandled =>
         /\ players' = players
         /\ entities' = entities
         /\ wstate' = wstate
         /\ did'.op.heard = <<>>]_vars

\* the sessions of the front end that are in the location of the worker
SessionsHere(g) == {s \in Sessions : location[s] = Here /\ guid[s] = g}

\* C38: the player map of the worker holds a guid exactly while a session
\* with that guid is in the location, and no lookup of a guid failed
C38_PlayersMirrorSessions ==
    wstate # "new" =>
        /\ wstate = "running"
        /\ \A g \in Guids : g \in DOMAIN players <=> SessionsHere(g) # {}

====
